---- MODULE Spec2Model ----
(***************************************************************************)
(* A model of umbral's request layer: the rate_limit and retry_on_failure  *)
(* decorators and the APICache of umbral/core/utils.py, and the            *)
(* UmbralClient operations of umbral/client.py that compose them.          *)
(*                                                                         *)
(* Time is counted in ticks; TicksPerSecond ticks make one second, so a    *)
(* clock reading need not be a whole number of seconds.                    *)
(***************************************************************************)
EXTENDS Integers, Sequences, FiniteSets, TLC

VARIABLES
    clock,          \* time.time(), in ticks
    call_times,     \* rate_limit: the decorated function's deque of call times
    rateLog,        \* history: one record per wrapper call of the rate limiter
    advances,       \* history: how many times the clock was moved
    max_retries,    \* retry_on_failure: its max_retries argument
    backoff_factor, \* retry_on_failure: its backoff_factor argument, in ticks
    rPc,            \* retry wrapper: where the call stands
    attempt,        \* retry wrapper: the loop variable
    last_exception, \* retry wrapper: the local of that name
    rResult,        \* retry wrapper: what the caller receives
    invocations,    \* history: the outcome of every invocation of func
    sleeps,         \* history: every delay handed to sleep()
    _cache,         \* APICache._cache: key -> [value, timestamp]
    _access_order,  \* APICache._access_order: keys, least recently used first
    _ttl,           \* APICache._ttl, in seconds
    _max_size,      \* APICache._max_size
    cLast,          \* history: the last cache call, its outcome and what it saw
    written,        \* history: per key, the last completed set, unless the
                    \* key was evicted for capacity or the cache cleared since
    recency,        \* history: stored keys, least recently touched first
    win,            \* per decorated client method, the deque of its rate limiter
    main,           \* the get_user call in progress: its retry loop and body
    aux,            \* the three count coroutines of that call, by slot
    user_profile,   \* get_user: the local of that name
    calls,          \* history: client calls made so far
    primaryLog,     \* history: how each primary fetch of this call ended
    fetched,        \* history: the bodies this call received
    user_ids,       \* the list handed to warm_cache or get_users_batch
    warm,           \* that call: which method, where it stands, its result
    batch,          \* the get_users_batch coroutines, in creation order
    batchArgs,      \* history: the argument of each get_users_batch call run
    req,            \* the HTTPClient.request call in progress or just ended
    reqCount,       \* history: HTTPClient.request calls made so far
    _metrics,       \* PerformanceMonitor._metrics
    _max_metrics,   \* PerformanceMonitor._max_metrics
    appended,       \* history: the metrics handed to _add_metric since the
                    \* last clear_metrics, in order
    tracked,        \* the track_request context entered and not yet left,
                    \* or how the last one was left
    statsCall,      \* history: the get_stats or get_endpoint_stats call
                    \* made since the last other call on the monitor, the
                    \* buffer it read and what it returned
    instLog,        \* history: the calls made through the client instances
    own,            \* history: per instance, the window its calls alone make
    avatar,         \* the get_user_avatar call in progress: its retry loop
    thumbs,         \* the three thumbnail requests of that call, by slot
    avatarCalls,    \* history: get_user_avatar calls made so far
    running,        \* the concurrent calls of one decorated operation
    byName          \* the get_user_by_username call in progress

rateVars == <<call_times, rateLog, advances>>

retryVars == <<max_retries, backoff_factor, rPc, attempt, last_exception,
               rResult, invocations, sleeps>>

cacheVars == <<_cache, _access_order, _ttl, _max_size, cLast, written, recency>>

clientVars == <<win, main, aux, user_profile, calls, primaryLog, fetched>>

warmVars == <<user_ids, warm, batch, batchArgs>>

httpVars == <<req, reqCount>>

perfVars == <<_metrics, _max_metrics, appended, tracked, statsCall>>

sharedVars == <<instLog, own>>

avatarVars == <<avatar, thumbs, avatarCalls>>

vars == <<clock, call_times, rateLog, advances, max_retries, backoff_factor,
          rPc, attempt, last_exception, rResult, invocations, sleeps,
          _cache, _access_order, _ttl, _max_size, cLast, written, recency,
          win, main, aux, user_profile, calls, primaryLog, fetched,
          user_ids, warm, batch, batchArgs, req, reqCount,
          _metrics, _max_metrics, appended, tracked, statsCall, instLog, own,
          avatar, thumbs, avatarCalls, running, byName>>

----------------------------------------------------------------------------
(* Bounds of the model *)

TicksPerSecond == 2
CallsPerMinute == 3
MaxRateCalls == 5
MaxAdvances == 4
MaxRetriesBound == 3
MaxBackoff == 2
MaxCacheSize == 2
MaxTtl == 1
MaxCacheAdvances == 1
MaxClientCalls == 1
MaxWarmIds == 120
MaxRequests == 2
MaxHttpAdvances == 1
MaxInstanceCalls == 3
MaxSharedAdvances == 1
MaxAvatarCalls == 2
MaxMetricsBound == 2
MaxAppends == 3
MaxPerfAdvances == 1
MaxLastN == 3
MaxTasks == 3
ConcLimit == 2
MaxConcRetries == 1
MaxConcAdvances == 1
MaxStatsLen == 2
MaxStatsDuration == 1

(* Program constants *)

Window == 60
GetUserLimit == 120
GetUsersBatchLimit == 120
AvatarLimit == 180
ByUsernameLimit == 120
ChunkSize == 50
BatchCeiling == 100
CountLimit == 60
ClientMaxRetries == 3
BackoffSeconds == 1
ClientCacheTtl == 300
MonitorMaxMetrics == 1000
CacheMaxSize == 1000

WindowTicks == Window * TicksPerSecond

----------------------------------------------------------------------------
(* Sequence helpers *)

RECURSIVE SeqSum(_)
SeqSum(s) == IF s = <<>> THEN 0 ELSE Head(s) + SeqSum(Tail(s))

RECURSIVE Pow2(_)
Pow2(n) == IF n <= 0 THEN 1 ELSE 2 * Pow2(n - 1)

SeqRemoveAt(s, i) == SubSeq(s, 1, i - 1) \o SubSeq(s, i + 1, Len(s))

SeqRange(s) == {s[i] : i \in 1..Len(s)}

----------------------------------------------------------------------------
(* rate_limit: src/umbral/core/utils.py, lines 29-79 *)

\* while call_times and now - call_times[0] >= 60: call_times.popleft()
RECURSIVE Purge(_, _)
Purge(w, now) ==
    IF w # <<>> /\ now - Head(w) >= WindowTicks
    THEN Purge(Tail(w), now)
    ELSE w

\* a mutant of the admission test: one call too many is let through
RateFullOffByOne(w, limit) == Len(w) > limit

\* if len(call_times) >= calls_per_minute
RateFull(w, limit) == Len(w) >= limit

\* sleep_time = 60 - (now - call_times[0]); RateLimitError(int(sleep_time)):
\* int() truncates the seconds toward zero
RetryAfterHint(w, now) == (WindowTicks - (now - Head(w))) \div TicksPerSecond

\* a mutant of the wrapper: a rejected call is recorded too
RateWrapperRecordsRejected(w, now, limit) ==
    LET p == Purge(w, now) IN
    IF RateFull(p, limit)
    THEN [window |-> Append(p, now), admitted |-> FALSE,
          hint |-> RetryAfterHint(p, now)]
    ELSE [window |-> Append(p, now), admitted |-> TRUE, hint |-> 0]

\* The wrapper up to its await: purge, test, then raise or record the call.
\* Nothing in it suspends, so it is one step.
RateWrapper(w, now, limit) ==
    LET p == Purge(w, now) IN
    IF RateFull(p, limit)
    THEN [window |-> p, admitted |-> FALSE, hint |-> RetryAfterHint(p, now)]
    ELSE [window |-> Append(p, now), admitted |-> TRUE, hint |-> 0]

RateDeltas == {1, TicksPerSecond, WindowTicks - 1, WindowTicks}

RateInit ==
    /\ call_times = <<>>
    /\ rateLog = <<>>
    /\ advances = 0

\* time passes between two calls (the clock never runs backwards)
RateAdvance ==
    /\ advances < MaxAdvances
    /\ \E d \in RateDeltas : clock' = clock + d
    /\ advances' = advances + 1
    /\ UNCHANGED <<byName, running, call_times, rateLog, retryVars, httpVars, perfVars, avatarVars, sharedVars, cacheVars, clientVars, warmVars>>

\* one call of the decorated function
RateCall ==
    /\ Len(rateLog) < MaxRateCalls
    /\ LET r == RateWrapper(call_times, clock, CallsPerMinute) IN
        /\ call_times' = r.window
        /\ rateLog' = Append(rateLog,
                [t |-> clock, admitted |-> r.admitted, hint |-> r.hint,
                 before |-> call_times, after |-> r.window,
                 invoked |-> r.admitted,
                 raised |-> IF r.admitted THEN "" ELSE "RateLimitError"])
    /\ UNCHANGED <<byName, running, clock, advances, retryVars, httpVars, perfVars, avatarVars, sharedVars, cacheVars, clientVars, warmVars>>

RateNext == RateAdvance \/ RateCall

RateIdle == call_times = <<>> /\ rateLog = <<>> /\ advances = 0

----------------------------------------------------------------------------
\* C1: with calls_per_minute = N and a clock that never runs backwards, at
\* most N admitted calls have their timestamps in any half-open 60-second
\* interval, and N+1 calls made within one second of a fresh limiter are
\* N admissions followed by one rejection.
AdmittedAt == {i \in 1..Len(rateLog) : rateLog[i].admitted}

C1_AtMostNPerWindow ==
    /\ \A i \in AdmittedAt :
          Cardinality({j \in AdmittedAt :
                          /\ rateLog[j].t >= rateLog[i].t
                          /\ rateLog[j].t < rateLog[i].t + WindowTicks})
              <= CallsPerMinute
    /\ (/\ Len(rateLog) >= CallsPerMinute + 1
        /\ rateLog[CallsPerMinute + 1].t - rateLog[1].t <= TicksPerSecond)
       => /\ \A i \in 1..CallsPerMinute : rateLog[i].admitted
          /\ ~rateLog[CallsPerMinute + 1].admitted

C1_Witness ==
    /\ Len(rateLog) >= CallsPerMinute + 2
    /\ rateLog[CallsPerMinute + 1].t - rateLog[1].t <= TicksPerSecond
    /\ ~rateLog[CallsPerMinute + 1].admitted
    /\ rateLog[CallsPerMinute + 2].admitted

----------------------------------------------------------------------------
(* retry_on_failure: src/umbral/core/utils.py, lines 82-135 *)

None == [kind |-> "None"]

\* the exception classes the wrapped operation may raise; CancelledError is
\* a BaseException, not an Exception
ExceptionKinds == {"RateLimitError", "UserNotFoundError", "NetworkError",
                   "ValueError"}
BaseExceptionKinds == {"CancelledError"}
RaisedKinds == ExceptionKinds \cup BaseExceptionKinds

RetryValues == {"r1", "r2"}

\* a mutant of the except clause: only network errors are retried
CaughtOnlyNetwork(kind) == kind = "NetworkError"

\* except Exception as e
Caught(kind) == kind \notin BaseExceptionKinds

\* a mutant of the bookkeeping: the first failure is kept
RememberFirst(last, e) == IF last = None THEN e ELSE last

\* last_exception = e
Remember(last, e) == e

\* if attempt == max_retries: break
RetryIsLast(a, mr) == a = mr

\* a mutant of the delay: the exponent is one too large
RetryDelayShifted(bf, a) == bf * Pow2(a + 1)

\* delay = backoff_factor * (2**attempt)
RetryDelay(bf, a) == bf * Pow2(a)

\* the statements after the loop
AfterLoop(last) ==
    IF last # None
    THEN [kind |-> "raise", exc |-> last]
    ELSE [kind |-> "raise",
          exc |-> [kind |-> "RuntimeError", inv |-> 0]]

RetryIdle ==
    /\ max_retries = 0
    /\ backoff_factor = 0
    /\ rPc = "idle"
    /\ attempt = 0
    /\ last_exception = None
    /\ rResult = None
    /\ invocations = <<>>
    /\ sleeps = <<>>

RetryInit ==
    /\ max_retries \in -1..MaxRetriesBound
    /\ backoff_factor \in 0..MaxBackoff
    /\ rPc = "start"
    /\ attempt = 0
    /\ last_exception = None
    /\ rResult = None
    /\ invocations = <<>>
    /\ sleeps = <<>>

\* for attempt in range(max_retries + 1): an empty range skips the loop
RetryEnter ==
    /\ rPc = "start"
    /\ IF max_retries + 1 <= 0
       THEN rPc' = "done" /\ rResult' = AfterLoop(last_exception)
       ELSE rPc' = "try" /\ UNCHANGED rResult
    /\ UNCHANGED <<byName, running, clock, rateVars, httpVars, perfVars, avatarVars, sharedVars, cacheVars, clientVars, warmVars, max_retries, backoff_factor, attempt,
                   last_exception, invocations, sleeps>>

\* return await func(*args, **kwargs), func returning v
RetryInvokeOk ==
    /\ rPc = "try"
    /\ \E v \in RetryValues :
        /\ invocations' = Append(invocations, [ok |-> TRUE, value |-> v])
        /\ rResult' = [kind |-> "return", value |-> v]
    /\ rPc' = "done"
    /\ UNCHANGED <<byName, running, clock, rateVars, httpVars, perfVars, avatarVars, sharedVars, cacheVars, clientVars, warmVars, max_retries, backoff_factor, attempt,
                   last_exception, sleeps>>

\* await func(*args, **kwargs), func raising: the except clause
RetryInvokeFail ==
    /\ rPc = "try"
    /\ \E k \in RaisedKinds :
        LET e == [kind |-> k, inv |-> Len(invocations) + 1] IN
        /\ invocations' = Append(invocations, [ok |-> FALSE, exc |-> e])
        /\ IF ~Caught(k)
           THEN /\ rPc' = "done"
                /\ rResult' = [kind |-> "raise", exc |-> e]
                /\ UNCHANGED <<last_exception, sleeps>>
           ELSE /\ last_exception' = Remember(last_exception, e)
                /\ IF RetryIsLast(attempt, max_retries)
                   THEN /\ rPc' = "done"
                        /\ rResult' = AfterLoop(last_exception')
                        /\ UNCHANGED sleeps
                   ELSE /\ rPc' = "sleep"
                        /\ sleeps' = Append(sleeps,
                               RetryDelay(backoff_factor, attempt))
                        /\ UNCHANGED rResult
    /\ UNCHANGED <<byName, running, clock, rateVars, httpVars, perfVars, avatarVars, sharedVars, cacheVars, clientVars, warmVars, max_retries, backoff_factor, attempt>>

\* await sleep(delay) returns; the loop takes its next value
RetryWake ==
    /\ rPc = "sleep"
    /\ clock' = clock + sleeps[Len(sleeps)]
    /\ attempt' = attempt + 1
    /\ rPc' = "try"
    /\ UNCHANGED <<byName, running, rateVars, httpVars, perfVars, avatarVars, sharedVars, cacheVars, clientVars, warmVars, max_retries, backoff_factor, last_exception,
                   rResult, invocations, sleeps>>

RetryNext == RetryEnter \/ RetryInvokeOk \/ RetryInvokeFail \/ RetryWake

----------------------------------------------------------------------------
(* APICache: src/umbral/core/utils.py, lines 166-250 *)

CacheKeys == {"k1", "k2", "k3"}
CacheValues == {[v |-> 1], [v |-> 2]}

\* what get returns for a key it does not hold
Absent == None

EmptyCache == [k \in {} |-> Absent]

Keys(c) == DOMAIN c

\* dict.pop(key, None)
DictPop(c, key) == [k \in (DOMAIN c) \ {key} |-> c[k]]

\* c[key] = entry
DictPut(c, key, entry) ==
    [k \in (DOMAIN c) \cup {key} |-> IF k = key THEN entry ELSE c[k]]

FirstIndex(s, x) == CHOOSE i \in 1..Len(s) : s[i] = x /\ \A j \in 1..(i - 1) : s[j] # x

\* deque.remove(x): the first occurrence goes; ValueError when there is none
DequeRemove(s, x) ==
    IF x \in SeqRange(s)
    THEN [order |-> SeqRemoveAt(s, FirstIndex(s, x)), raised |-> ""]
    ELSE [order |-> s, raised |-> "ValueError"]

\* time.time() - entry["timestamp"] > self._ttl
Expired(now, timestamp, ttl) == now - timestamp > ttl * TicksPerSecond

\* _remove_key: the ValueError of the deque is suppressed
RemoveKey(c, o, key) ==
    [cache |-> DictPop(c, key), order |-> DequeRemove(o, key).order]

\* a mutant of get: every expired entry is swept before the lookup
RECURSIVE SweepExpired(_, _, _, _, _)
SweepExpired(c, o, ks, now, ttl) ==
    IF ks = {} THEN [cache |-> c, order |-> o]
    ELSE LET k == CHOOSE x \in ks : TRUE
             r == IF Expired(now, c[k].timestamp, ttl)
                  THEN [cache |-> DictPop(c, k), order |-> DequeRemove(o, k).order]
                  ELSE [cache |-> c, order |-> o] IN
         SweepExpired(r.cache, r.order, ks \ {k}, now, ttl)

CacheGetSweeping(c, o, key, now, ttl) ==
    LET w == SweepExpired(c, o, DOMAIN c, now, ttl) IN
    IF key \notin DOMAIN w.cache
    THEN [cache |-> w.cache, order |-> w.order, raised |-> "",
          result |-> Absent]
    ELSE LET r == DequeRemove(w.order, key) IN
         IF r.raised # ""
         THEN [cache |-> w.cache, order |-> w.order, raised |-> r.raised,
               result |-> Absent]
         ELSE [cache |-> w.cache, order |-> Append(r.order, key),
               raised |-> "", result |-> w.cache[key].value]

\* APICache.get
CacheGet(c, o, key, now, ttl) ==
    IF key \notin DOMAIN c
    THEN [cache |-> c, order |-> o, raised |-> "", result |-> Absent]
    ELSE IF Expired(now, c[key].timestamp, ttl)
    THEN LET r == RemoveKey(c, o, key) IN
         [cache |-> r.cache, order |-> r.order, raised |-> "", result |-> Absent]
    ELSE LET r == DequeRemove(o, key) IN
         IF r.raised # ""
         THEN [cache |-> c, order |-> o, raised |-> r.raised, result |-> Absent]
         ELSE [cache |-> c, order |-> Append(r.order, key), raised |-> "",
               result |-> c[key].value]

\* a mutant of the eviction loop: it stops one entry too late
CacheFullOffByOne(c, max) == Cardinality(DOMAIN c) > max

\* len(self._cache) >= self._max_size
CacheFull(c, max) == Cardinality(DOMAIN c) >= max

\* while len(self._cache) >= self._max_size:
\*     lru_key = self._access_order.popleft(); self._cache.pop(lru_key, None)
\* popleft raises IndexError on an empty deque
RECURSIVE EvictLoop(_, _, _, _)
EvictLoop(c, o, max, evicted) ==
    IF ~CacheFull(c, max)
    THEN [cache |-> c, order |-> o, raised |-> "", evicted |-> evicted]
    ELSE IF o = <<>>
    THEN [cache |-> c, order |-> o, raised |-> "IndexError", evicted |-> evicted]
    ELSE EvictLoop(DictPop(c, Head(o)), Tail(o), max,
                   evicted \cup ({Head(o)} \cap DOMAIN c))

\* APICache.set
CacheSet(c, o, key, value, now, max) ==
    LET r == IF key \in DOMAIN c THEN DequeRemove(o, key)
                                 ELSE [order |-> o, raised |-> ""] IN
    IF r.raised # ""
    THEN [cache |-> c, order |-> o, raised |-> r.raised, evicted |-> {}]
    ELSE LET e == EvictLoop(c, r.order, max, {}) IN
         IF e.raised # ""
         THEN [cache |-> e.cache, order |-> e.order, raised |-> e.raised,
               evicted |-> e.evicted]
         ELSE [cache |-> DictPut(e.cache, key,
                            [value |-> value, timestamp |-> now]),
               order |-> Append(e.order, key), raised |-> "",
               evicted |-> e.evicted]

\* APICache.get_stats
CacheStats(c, max, ttl) ==
    [size |-> Cardinality(DOMAIN c), max_size |-> max, ttl |-> ttl]

NoCall == [op |-> "none"]

NeverSet == [set |-> FALSE]

SeqWithout(s, x) == SelectSeq(s, LAMBDA y : y # x)

SeqWithoutSet(s, xs) == SelectSeq(s, LAMBDA y : y \notin xs)

CacheIdle ==
    /\ _cache = EmptyCache
    /\ _access_order = <<>>
    /\ _ttl = 0
    /\ _max_size = 0
    /\ cLast = NoCall
    /\ written = [k \in CacheKeys |-> NeverSet]
    /\ recency = <<>>

\* APICache.__init__
CacheInit ==
    /\ _cache = EmptyCache
    /\ _access_order = <<>>
    /\ _ttl \in 0..MaxTtl
    /\ _max_size \in 1..MaxCacheSize
    /\ cLast = NoCall
    /\ written = [k \in CacheKeys |-> NeverSet]
    /\ recency = <<>>

CacheDeltas == {1, MaxTtl * TicksPerSecond + 1}

\* time passes between two cache calls
CacheAdvance ==
    /\ advances < MaxCacheAdvances
    /\ \E d \in CacheDeltas : clock' = clock + d
    /\ advances' = advances + 1
    /\ UNCHANGED <<byName, running, call_times, rateLog, retryVars, httpVars, perfVars, avatarVars, sharedVars, cacheVars, clientVars, warmVars>>

\* cache.get(key)
CacheGetCall ==
    /\ \E key \in CacheKeys :
        LET r == CacheGet(_cache, _access_order, key, clock, _ttl) IN
        /\ _cache' = r.cache
        /\ _access_order' = r.order
        /\ cLast' = [op |-> "get", key |-> key, raised |-> r.raised,
                     result |-> r.result, t |-> clock]
        /\ recency' = IF r.raised = "" /\ r.result # Absent
                      THEN Append(SeqWithout(recency, key), key)
                      ELSE SeqWithoutSet(recency, (DOMAIN _cache) \ DOMAIN r.cache)
    /\ UNCHANGED <<byName, running, clock, rateVars, retryVars, httpVars, perfVars, avatarVars, sharedVars, clientVars, warmVars, _ttl, _max_size, written>>

\* cache.set(key, value)
CacheSetCall ==
    /\ \E key \in CacheKeys, value \in CacheValues :
        LET r == CacheSet(_cache, _access_order, key, value, clock, _max_size) IN
        /\ _cache' = r.cache
        /\ _access_order' = r.order
        /\ cLast' = [op |-> "set", key |-> key, raised |-> r.raised,
                     result |-> Absent, preKeys |-> DOMAIN _cache,
                     preOrder |-> recency, evicted |-> r.evicted]
        /\ written' = [k \in CacheKeys |->
                        IF k = key /\ r.raised = ""
                        THEN [set |-> TRUE, value |-> value, storedAt |-> clock]
                        ELSE IF k \in r.evicted
                        THEN NeverSet
                        ELSE written[k]]
        /\ recency' = IF r.raised = ""
                      THEN Append(SeqWithoutSet(recency, r.evicted \cup {key}), key)
                      ELSE SeqWithoutSet(recency, r.evicted)
    /\ UNCHANGED <<byName, running, clock, rateVars, retryVars, httpVars, perfVars, avatarVars, sharedVars, clientVars, warmVars, _ttl, _max_size>>

\* cache.clear()
CacheClearCall ==
    /\ _cache' = EmptyCache
    /\ _access_order' = <<>>
    /\ cLast' = [op |-> "clear"]
    /\ written' = [k \in CacheKeys |-> NeverSet]
    /\ recency' = <<>>
    /\ UNCHANGED <<byName, running, clock, rateVars, retryVars, httpVars, perfVars, avatarVars, sharedVars, clientVars, warmVars, _ttl, _max_size>>

\* cache.get_stats()
CacheStatsCall ==
    /\ cLast' = [op |-> "stats",
                 result |-> CacheStats(_cache, _max_size, _ttl)]
    /\ UNCHANGED <<byName, running, clock, rateVars, retryVars, httpVars, perfVars, avatarVars, sharedVars, clientVars, warmVars, _cache, _access_order, _ttl,
                   _max_size, written, recency>>

CacheNext ==
    \/ CacheAdvance
    \/ CacheGetCall
    \/ CacheSetCall
    \/ CacheClearCall
    \/ CacheStatsCall

----------------------------------------------------------------------------
(* HTTPClient.request: src/umbral/core/http.py, lines 121-187 *)

\* get_api_endpoint
ApiEndpoint(endpoint_type) ==
    CASE endpoint_type = "users" -> "https://users.roblox.com"
      [] endpoint_type = "thumbnails" -> "https://thumbnails.roblox.com"
      [] endpoint_type = "games" -> "https://games.roblox.com"
      [] endpoint_type = "badges" -> "https://badges.roblox.com"
      [] endpoint_type = "friends" -> "https://friends.roblox.com"
      [] endpoint_type = "presence" -> "https://presence.roblox.com"
      [] OTHER -> "https://api.roblox.com"

\* url = f"{base_url}{path}"
Url(endpoint_type, path) == <<ApiEndpoint(endpoint_type)>> \o path

\* params of a request: None, or a dict as the sequence of its items in
\* insertion order
NoParams == [none |-> TRUE, items |-> <<>>]

Dict(items) == [none |-> FALSE, items |-> items]

RECURSIVE ItemsStr(_)
ItemsStr(items) ==
    IF items = <<>> THEN <<>>
    ELSE <<Head(items)[1], ":", Head(items)[2]>> \o ItemsStr(Tail(items))

\* str(params): "None", or the items in the order the dict holds them
ParamsStr(params) ==
    IF params.none THEN <<"None">>
    ELSE <<"{">> \o ItemsStr(params.items) \o <<"}">>

\* cache_key = f"{method}:{url}:{params!s}"
CacheKeyOf(method, url, params) == <<method, url, ParamsStr(params)>>

\* the exceptions _handle_response_errors and the except clauses raise
HttpErrorKinds == {"UserNotFoundError", "RateLimitError", "RobloxAPIError",
                   "NetworkError"}

\* the failures drawn for the primary request and for a count request
PrimaryErrorKinds == {"UserNotFoundError", "NetworkError"}

AuxErrorKinds == {"NetworkError"}

\* dict.get(key, default)
DictGet(d, key, default) == IF key \in DOMAIN d THEN d[key] ELSE default

\* a mutant of request: the cache is never read
RequestStartNoLookup(c, o, method, key, use_cache, now, ttl) ==
    [kind |-> "net", cache |-> c, order |-> o, ops |-> <<>>]

\* request, up to the network: the cache is read for a GET with use_cache
RequestStart(c, o, method, key, use_cache, now, ttl) ==
    IF method = "GET" /\ use_cache
    THEN LET g == CacheGet(c, o, key, now, ttl) IN
         IF g.raised # ""
         THEN [kind |-> "raise", exc |-> g.raised, cache |-> g.cache,
               order |-> g.order, ops |-> <<"get">>]
         ELSE IF g.result # Absent
         THEN [kind |-> "hit", data |-> g.result, cache |-> g.cache,
               order |-> g.order, ops |-> <<"get">>]
         ELSE [kind |-> "net", cache |-> g.cache, order |-> g.order,
               ops |-> <<"get">>]
    ELSE [kind |-> "net", cache |-> c, order |-> o, ops |-> <<>>]

\* a mutant of request: the body is stored whatever the method
RequestDoneAnyMethod(c, o, method, key, use_cache, data, now, max) ==
    IF use_cache
    THEN LET r == CacheSet(c, o, key, data, now, max) IN
         [cache |-> r.cache, order |-> r.order, raised |-> r.raised,
          evicted |-> r.evicted, ops |-> <<"set">>]
    ELSE [cache |-> c, order |-> o, raised |-> "", evicted |-> {},
          ops |-> <<>>]

\* request, after a 200 response: the body is stored for a GET with use_cache
RequestDone(c, o, method, key, use_cache, data, now, max) ==
    IF method = "GET" /\ use_cache
    THEN LET r == CacheSet(c, o, key, data, now, max) IN
         [cache |-> r.cache, order |-> r.order, raised |-> r.raised,
          evicted |-> r.evicted, ops |-> <<"set">>]
    ELSE [cache |-> c, order |-> o, raised |-> "", evicted |-> {},
          ops |-> <<>>]

\* an exception of the given class
Exc(kind) == [kind |-> kind]

\* the requests made of HTTPClient.request
HttpMethods == {"GET", "POST"}

HttpPaths == {<<"/v1/users/search">>}

HttpParams ==
    {NoParams,
     Dict(<< <<"keyword", "al">> >>),
     Dict(<< <<"keyword", "al">>, <<"limit", "10">> >>),
     Dict(<< <<"limit", "10">>, <<"keyword", "al">> >>)}

NoReq ==
    [pc |-> "idle", method |-> "", url |-> <<>>, params |-> NoParams,
     use_cache |-> FALSE, source |-> "", result |-> None, ops |-> <<>>,
     pre |-> [cache |-> EmptyCache, order |-> <<>>], start |-> 0, end |-> 0,
     prev |-> None]

\* what is remembered of the request that came before
Summary(r) ==
    IF r.pc = "idle" THEN None
    ELSE [method |-> r.method, url |-> r.url, params |-> r.params,
          use_cache |-> r.use_cache, source |-> r.source,
          result |-> r.result, end |-> r.end]

HttpIdle ==
    /\ req = NoReq
    /\ reqCount = 0

\* await http.request(method, "users", path, params, use_cache=...), up to
\* the network
HttpRequest ==
    /\ req.pc \in {"idle", "done"}
    /\ reqCount < MaxRequests
    /\ reqCount' = reqCount + 1
    /\ \E method \in HttpMethods, path \in HttpPaths, params \in HttpParams,
          use_cache \in BOOLEAN :
        LET url == Url("users", path)
            r == RequestStart(_cache, _access_order, method,
                              CacheKeyOf(method, url, params), use_cache,
                              clock, _ttl)
            q == [NoReq EXCEPT !.method = method, !.url = url,
                               !.params = params, !.use_cache = use_cache,
                               !.ops = r.ops,
                               !.pre = [cache |-> _cache,
                                        order |-> _access_order],
                               !.start = clock, !.end = clock,
                               !.prev = Summary(req)] IN
        /\ _cache' = r.cache
        /\ _access_order' = r.order
        /\ req' = CASE r.kind = "hit" ->
                        [q EXCEPT !.pc = "done", !.source = "cache",
                                  !.result = [kind |-> "return",
                                              value |-> r.data]]
                   [] r.kind = "net" -> [q EXCEPT !.pc = "net"]
                   [] r.kind = "raise" ->
                        [q EXCEPT !.pc = "done", !.source = "cache",
                                  !.result = [kind |-> "raise",
                                              exc |-> Exc(r.exc)]]
    /\ UNCHANGED <<byName, running, clock, rateVars, retryVars, _ttl, _max_size, cLast,
                   written, recency, clientVars, warmVars, perfVars, avatarVars, sharedVars>>

\* the request is answered 200: the body is stored if it may be, and returned
HttpOk ==
    /\ req.pc = "net"
    /\ \E data \in CacheValues :
        LET r == RequestDone(_cache, _access_order, req.method,
                             CacheKeyOf(req.method, req.url, req.params),
                             req.use_cache, data, clock, _max_size) IN
        /\ _cache' = r.cache
        /\ _access_order' = r.order
        /\ req' = [req EXCEPT
                     !.pc = "done", !.source = "net", !.end = clock,
                     !.ops = req.ops \o r.ops,
                     !.result = IF r.raised = ""
                                THEN [kind |-> "return", value |-> data]
                                ELSE [kind |-> "raise",
                                      exc |-> Exc(r.raised)]]
    /\ UNCHANGED <<byName, running, clock, rateVars, retryVars, _ttl, _max_size, cLast,
                   written, recency, clientVars, warmVars, reqCount,
                   perfVars, avatarVars, sharedVars>>

\* the request fails: _handle_response_errors or an except clause raises
HttpFail ==
    /\ req.pc = "net"
    /\ \E k \in AuxErrorKinds :
        req' = [req EXCEPT !.pc = "done", !.source = "net", !.end = clock,
                           !.result = [kind |-> "raise", exc |-> Exc(k)]]
    /\ UNCHANGED <<byName, running, clock, rateVars, retryVars, cacheVars, clientVars,
                   warmVars, reqCount, perfVars, avatarVars, sharedVars>>

\* time passes between two requests: a second, or more than the
\* time-to-live of the cache
HttpAdvance ==
    /\ req.pc = "done"
    /\ advances < MaxHttpAdvances
    /\ advances' = advances + 1
    /\ \E d \in {TicksPerSecond, ClientCacheTtl * TicksPerSecond + 1} :
        clock' = clock + d
    /\ UNCHANGED <<byName, running, call_times, rateLog, retryVars, cacheVars, clientVars,
                   warmVars, httpVars, perfVars, avatarVars, sharedVars>>

HttpNext ==
    \/ HttpRequest
    \/ HttpOk
    \/ HttpFail
    \/ HttpAdvance

----------------------------------------------------------------------------
(* PerformanceMonitor: src/umbral/core/performance.py *)

NoTrack == [pc |-> "out", endpoint |-> "", method |-> "", cached |-> FALSE,
            start_time |-> 0, body |-> "", raised |-> None]

NoStats == [op |-> "none", last_n |-> 0, seen |-> <<>>, result |-> <<>>]

PerfIdle ==
    /\ _metrics = <<>>
    /\ _max_metrics = MonitorMaxMetrics
    /\ appended = <<>>
    /\ tracked = NoTrack
    /\ statsCall = NoStats

\* PerformanceMonitor(max_metrics=...)
PerfInit ==
    /\ _metrics = <<>>
    /\ _max_metrics \in 0..MaxMetricsBound
    /\ appended = <<>>
    /\ tracked = NoTrack
    /\ statsCall = NoStats

TrackedEndpoints == {"users", "friends"}

\* how the body of the with statement ends
TrackedOutcomes == {"return"} \cup AuxErrorKinds \cup BaseExceptionKinds

\* a mutant of _add_metric: at capacity the newest metric is dropped
AddMetricDropsNewest(ms, metric, max) ==
    LET a == Append(ms, metric) IN
    IF Len(a) > max THEN SubSeq(a, 1, Len(a) - 1) ELSE a

\* _add_metric: append, then pop(0) if the list is longer than max_metrics
AddMetric(ms, metric, max) ==
    LET a == Append(ms, metric) IN
    IF Len(a) > max THEN Tail(a) ELSE a

\* async with monitor.track_request(endpoint, method, cached): up to the yield
TrackEnter ==
    /\ tracked.pc = "out"
    /\ Len(appended) < MaxAppends
    /\ \E e \in TrackedEndpoints, c \in BOOLEAN :
        tracked' = [NoTrack EXCEPT !.pc = "in", !.endpoint = e,
                                   !.method = "GET", !.cached = c,
                                   !.start_time = clock]
    /\ statsCall' = NoStats
    /\ UNCHANGED <<byName, running, clock, rateVars, retryVars, cacheVars, clientVars,
                   warmVars, httpVars, sharedVars, avatarVars, _metrics,
                   _max_metrics, appended>>

\* success = True; try: yield; except Exception: success = False; raise
TrackSuccess(out) == ~(out # "return" /\ Caught(out))

\* the body ends: the except clause, then the finally clause adds the metric,
\* then what the body raised leaves the with statement
TrackExit ==
    /\ tracked.pc = "in"
    /\ \E out \in TrackedOutcomes :
        LET metric == [endpoint |-> tracked.endpoint,
                       method |-> tracked.method,
                       duration |-> clock - tracked.start_time,
                       success |-> TrackSuccess(out),
                       cached |-> tracked.cached] IN
        /\ _metrics' = AddMetric(_metrics, metric, _max_metrics)
        /\ appended' = Append(appended, metric)
        /\ tracked' = [NoTrack EXCEPT
                          !.body = out,
                          !.raised = IF out = "return" THEN None ELSE Exc(out)]
    /\ statsCall' = NoStats
    /\ UNCHANGED <<byName, running, clock, rateVars, retryVars, cacheVars, clientVars,
                   warmVars, httpVars, sharedVars, avatarVars, _max_metrics>>

\* clear_metrics
ClearMetrics ==
    /\ _metrics # <<>>
    /\ _metrics' = <<>>
    /\ appended' = <<>>
    /\ statsCall' = NoStats
    /\ UNCHANGED <<byName, running, clock, rateVars, retryVars, cacheVars, clientVars,
                   warmVars, httpVars, sharedVars, avatarVars, _max_metrics,
                   tracked>>

\* round(a / b) for b > 0: to the nearest integer, a tie to the even one
RoundDiv(a, b) ==
    LET q == a \div b
        r == a % b IN
    IF 2 * r < b THEN q
    ELSE IF 2 * r > b THEN q + 1
    ELSE IF q % 2 = 0 THEN q ELSE q + 1

\* the tests of the two generator sums
Successful(m) == m.success

Cached(m) == m.cached

\* sum(m.duration for m in metrics), in ticks
RECURSIVE DurationSum(_)
DurationSum(ms) ==
    IF ms = <<>> THEN 0 ELSE ms[1].duration + DurationSum(Tail(ms))

\* min(m.duration for m in metrics) of a non-empty list, in ticks
Fastest(ms) ==
    CHOOSE d \in {ms[i].duration : i \in DOMAIN ms} :
        \A i \in DOMAIN ms : d <= ms[i].duration

\* max(m.duration for m in metrics) of a non-empty list, in ticks
Slowest(ms) ==
    CHOOSE d \in {ms[i].duration : i \in DOMAIN ms} :
        \A i \in DOMAIN ms : d >= ms[i].duration

\* _calculate_basic_stats: avg_duration in thousandths of a second, the two
\* rates in hundredths of a percent (round(x, 3) and round(x, 2))
CalculateBasicStats(ms) ==
    IF ms = <<>>
    THEN [total_requests |-> 0, avg_duration |-> 0, success_rate |-> 0,
          cache_hit_rate |-> 0]
    ELSE LET total == Len(ms)
             successful == Len(SelectSeq(ms, Successful))
             cached == Len(SelectSeq(ms, Cached)) IN
         [total_requests |-> total,
          avg_duration |->
              RoundDiv(DurationSum(ms) * 1000, total * TicksPerSecond),
          success_rate |-> RoundDiv(successful * 10000, total),
          cache_hit_rate |-> RoundDiv(cached * 10000, total)]

\* self._metrics[-last_n:] if self._metrics else [], for last_n >= 0: the
\* slice starts at index -last_n, and index -0 is the first element
RecentMetrics(ms, last_n) ==
    IF ms = <<>> THEN <<>>
    ELSE IF last_n = 0 \/ last_n >= Len(ms) THEN ms
    ELSE SubSeq(ms, Len(ms) - last_n + 1, Len(ms))

\* the stats.update of get_stats
WithExtremes(stats, ms) ==
    IF ms # <<>>
    THEN [fastest_request |-> Fastest(ms), slowest_request |-> Slowest(ms)]
         @@ stats
    ELSE stats

\* get_stats(last_n), applied to the buffer ms
GetStatsOf(ms, last_n) ==
    LET recent_metrics == RecentMetrics(ms, last_n) IN
    WithExtremes(CalculateBasicStats(recent_metrics), recent_metrics)

\* the keys of endpoint_metrics after the loop of get_endpoint_stats
EndpointsOf(ms) == {ms[i].endpoint : i \in DOMAIN ms}

\* endpoint_metrics[e] after that loop
OfEndpoint(ms, e) ==
    LET At(m) == m.endpoint = e IN SelectSeq(ms, At)

\* get_endpoint_stats, applied to the buffer ms
GetEndpointStatsOf(ms) ==
    [e \in EndpointsOf(ms) |-> CalculateBasicStats(OfEndpoint(ms, e))]

\* monitor.get_stats(last_n)
GetStats ==
    /\ \E last_n \in 0..MaxLastN :
        statsCall' = [op |-> "get_stats", last_n |-> last_n,
                      seen |-> _metrics,
                      result |-> GetStatsOf(_metrics, last_n)]
    /\ UNCHANGED <<byName, running, clock, rateVars, retryVars, cacheVars, clientVars,
                   warmVars, httpVars, sharedVars, avatarVars, _metrics,
                   _max_metrics, appended, tracked>>

\* monitor.get_endpoint_stats()
GetEndpointStats ==
    /\ statsCall' = [op |-> "get_endpoint_stats", last_n |-> 0,
                     seen |-> _metrics,
                     result |-> GetEndpointStatsOf(_metrics)]
    /\ UNCHANGED <<byName, running, clock, rateVars, retryVars, cacheVars, clientVars,
                   warmVars, httpVars, sharedVars, avatarVars, _metrics,
                   _max_metrics, appended, tracked>>

\* time passes inside the body of a with statement
PerfAdvance ==
    /\ tracked.pc = "in"
    /\ advances < MaxPerfAdvances
    /\ advances' = advances + 1
    /\ clock' = clock + 1
    /\ UNCHANGED <<byName, running, call_times, rateLog, retryVars, cacheVars, clientVars,
                   warmVars, httpVars, perfVars, sharedVars, avatarVars>>

PerfNext ==
    \/ TrackEnter
    \/ TrackExit
    \/ ClearMetrics
    \/ PerfAdvance

\* the metrics track_request can leave in the buffer
Metrics ==
    [endpoint : TrackedEndpoints, method : {"GET"},
     duration : 0..MaxStatsDuration, success : BOOLEAN, cached : BOOLEAN]

\* a default monitor after up to MaxStatsLen tracked runs
StatsInit ==
    /\ _max_metrics = MonitorMaxMetrics
    /\ \E n \in 0..MaxStatsLen : _metrics \in [1..n -> Metrics]
    /\ appended = _metrics
    /\ tracked = NoTrack
    /\ statsCall = NoStats

StatsNext ==
    \/ GetStats
    \/ GetEndpointStats

----------------------------------------------------------------------------
(* UmbralClient.get_user and the count methods: src/umbral/client.py *)

UserIds == {1}

\* response bodies of /v1/users/{id}; the second has no description and no
\* badge field
ProfileBodies(uid) ==
    { [id |-> uid, name |-> "alice", displayName |-> "Alice",
       description |-> "hi", created |-> "2020-01-01T00:00:00Z",
       hasVerifiedBadge |-> TRUE],
      [id |-> uid, name |-> "alice", displayName |-> "Al",
       created |-> "2021-06-01T12:00:00+00:00"] }

\* response bodies of the count endpoints: one with a count, one without
CountBodies == { [count |-> 3], [errors |-> 0] }

\* datetime.fromisoformat(data["created"].replace("Z", "+00:00"))
ParseCreated(s) ==
    CASE s = "2020-01-01T00:00:00Z" ->
            [date |-> <<2020, 1, 1>>, time |-> <<0, 0, 0>>, utcoffset |-> 0]
      [] s = "2021-06-01T12:00:00+00:00" ->
            [date |-> <<2021, 6, 1>>, time |-> <<12, 0, 0>>, utcoffset |-> 0]

\* _parse_user_profile
ParseUserProfile(data) ==
    [id |-> data["id"],
     username |-> data["name"],
     display_name |-> data["displayName"],
     description |-> DictGet(data, "description", ""),
     created_date |-> ParseCreated(data["created"]),
     follower_count |-> 0,
     following_count |-> 0,
     friend_count |-> 0,
     is_verified |-> DictGet(data, "hasVerifiedBadge", FALSE)]

AuxSlots == 1..3

\* count_tasks, in order: followers, followings, friends
AuxOp(s) ==
    <<"get_user_follower_count", "get_user_following_count",
      "get_user_friend_count">>[s]

AuxUrl(s, uid) ==
    Url("friends",
        <<"/v1/users/", uid,
          <<"/followers/count", "/followings/count", "/friends/count">>[s]>>)

AuxKey(s, uid) == CacheKeyOf("GET", AuxUrl(s, uid), NoParams)

UserKey(uid) == CacheKeyOf("GET", Url("users", <<"/v1/users/", uid>>), NoParams)

ClientOps == {"get_user", "get_users_batch", "get_user_avatar",
              "get_user_by_username",
              "get_user_follower_count",
              "get_user_following_count", "get_user_friend_count"}

\* @rate_limit(calls_per_minute=...)
LimitOf(op) ==
    CASE op = "get_user" -> GetUserLimit
      [] op = "get_users_batch" -> GetUsersBatchLimit
      [] op = "get_user_avatar" -> AvatarLimit
      [] op = "get_user_by_username" -> ByUsernameLimit
      [] OTHER -> CountLimit

BackoffTicks == BackoffSeconds * TicksPerSecond

IdleTask == [pc |-> "idle", uid |-> 0, attempt |-> 0, last |-> None,
             wake |-> 0, result |-> None]

NoAux == [pc |-> "none", attempt |-> 0, last |-> None, wake |-> 0,
          result |-> None]

NewAux == [NoAux EXCEPT !.pc = "new"]

NoFetch == [primary |-> Absent, aux |-> [s \in AuxSlots |-> Absent]]

\* the except clause of the retry wrapper around a client method
RetryOnFail(t, e, now) ==
    IF ~Caught(e.kind)
    THEN [t EXCEPT !.pc = "done", !.result = [kind |-> "raise", exc |-> e]]
    ELSE LET last == Remember(t.last, e) IN
         IF RetryIsLast(t.attempt, ClientMaxRetries)
         THEN [t EXCEPT !.pc = "done", !.last = last,
                        !.result = AfterLoop(last)]
         ELSE [t EXCEPT !.pc = "sleep", !.last = last,
                        !.wake = now + RetryDelay(BackoffTicks, t.attempt)]

\* x if not isinstance(x, Exception) else 0
CountOrDefault(r) == IF r.kind = "return" THEN r.value ELSE 0

\* a mutant of the merge: the second and third slots are exchanged
MergeSwapped(p, results) ==
    [p EXCEPT !.follower_count = CountOrDefault(results[1]),
              !.following_count = CountOrDefault(results[3]),
              !.friend_count = CountOrDefault(results[2])]

\* UserProfile(id=user_profile.id, ..., follower_count=follower_count_val, ...)
Merge(p, results) ==
    [id |-> p.id,
     username |-> p.username,
     display_name |-> p.display_name,
     description |-> p.description,
     created_date |-> p.created_date,
     follower_count |-> CountOrDefault(results[1]),
     following_count |-> CountOrDefault(results[2]),
     friend_count |-> CountOrDefault(results[3]),
     is_verified |-> p.is_verified]

\* response = await self._http.get(...): a failure leaves the body
PrimaryFailure(t, e, now) == RetryOnFail(t, e, now)

\* a mutant of get_user: the counts are fetched whatever the primary did
AuxAfterAlways(ok) == [s \in AuxSlots |-> NewAux]

\* count_tasks is built after the primary response was parsed
AuxAfter(ok) == IF ok THEN [s \in AuxSlots |-> NewAux]
                      ELSE [s \in AuxSlots |-> NoAux]

ClientIdle ==
    /\ win = [op \in ClientOps |-> <<>>]
    /\ main = IdleTask
    /\ aux = [s \in AuxSlots |-> NoAux]
    /\ user_profile = Absent
    /\ calls = 0
    /\ primaryLog = <<>>
    /\ fetched = NoFetch

\* a window holding n calls made at time 0
WindowOf(n) == [i \in 1..n |-> 0]

InitiallyFull ==
    { {}, {"get_user"}, {"get_user_following_count"},
      {"get_user_follower_count", "get_user_following_count",
       "get_user_friend_count"} }

\* A client some of whose methods were just called up to their limit
ClientInit ==
    /\ win \in {[op \in ClientOps |->
                    IF op \in full THEN WindowOf(LimitOf(op)) ELSE <<>>] :
                 full \in InitiallyFull}
    /\ main = IdleTask
    /\ aux = [s \in AuxSlots |-> NoAux]
    /\ user_profile = Absent
    /\ calls = 0
    /\ primaryLog = <<>>
    /\ fetched = NoFetch

\* HTTPClient.__init__: APICache(ttl=cache_ttl)
HttpCacheInit ==
    /\ _cache = EmptyCache
    /\ _access_order = <<>>
    /\ _ttl = ClientCacheTtl
    /\ _max_size = CacheMaxSize
    /\ cLast = NoCall
    /\ written = [k \in CacheKeys |-> NeverSet]
    /\ recency = <<>>

\* get_user after its primary response: parse, build the count coroutines,
\* await gather
AfterPrimary(t, data, how, log) ==
    /\ user_profile' = ParseUserProfile(data)
    /\ aux' = AuxAfter(TRUE)
    /\ main' = [t EXCEPT !.pc = "gather"]
    /\ primaryLog' = Append(log, how)
    /\ fetched' = [NoFetch EXCEPT !.primary = data]

\* one pass of the retry loop of get_user, up to its first suspension
PrimaryAttempt(t, uid, log) ==
    LET r == RequestStart(_cache, _access_order, "GET", UserKey(uid), TRUE,
                          clock, _ttl) IN
    /\ _cache' = r.cache
    /\ _access_order' = r.order
    /\ CASE r.kind = "hit" -> AfterPrimary(t, r.data, "hit", log)
         [] r.kind = "net" ->
              /\ main' = [t EXCEPT !.pc = "net"]
              /\ primaryLog' = log
              /\ aux' = AuxAfter(FALSE)
              /\ user_profile' = Absent
              /\ fetched' = NoFetch
         [] r.kind = "raise" ->
              /\ main' = PrimaryFailure(t, Exc(r.exc), clock)
              /\ primaryLog' = Append(log, r.exc)
              /\ aux' = AuxAfter(FALSE)
              /\ user_profile' = Absent
              /\ fetched' = NoFetch

\* await client.get_user(uid): the rate limiter, then the retry loop
UserCall ==
    /\ main.pc \in {"idle", "done"}
    /\ calls < MaxClientCalls
    /\ calls' = calls + 1
    /\ \E uid \in UserIds :
        LET r == RateWrapper(win["get_user"], clock, LimitOf("get_user")) IN
        /\ win' = [win EXCEPT !["get_user"] = r.window]
        /\ IF r.admitted
           THEN PrimaryAttempt([IdleTask EXCEPT !.uid = uid], uid, <<>>)
           ELSE /\ main' = [IdleTask EXCEPT
                              !.uid = uid,
                              !.pc = "done",
                              !.result = [kind |-> "raise",
                                          exc |-> Exc("RateLimitError")]]
                /\ aux' = AuxAfter(FALSE)
                /\ user_profile' = Absent
                /\ primaryLog' = <<>>
                /\ fetched' = NoFetch
                /\ UNCHANGED <<_cache, _access_order>>
    /\ UNCHANGED <<byName, running, clock, rateVars, retryVars, httpVars, perfVars, avatarVars, sharedVars, warmVars, _ttl, _max_size, cLast,
                   written, recency>>

\* the primary request is answered 200: the body is cached, get_user goes on
PrimaryOk ==
    /\ main.pc = "net"
    /\ \E data \in ProfileBodies(main.uid) :
        LET r == RequestDone(_cache, _access_order, "GET", UserKey(main.uid),
                             TRUE, data, clock, _max_size) IN
        /\ _cache' = r.cache
        /\ _access_order' = r.order
        /\ IF r.raised = ""
           THEN AfterPrimary(main, data, "ok", primaryLog)
           ELSE /\ main' = PrimaryFailure(main, Exc(r.raised), clock)
                /\ primaryLog' = Append(primaryLog, r.raised)
                /\ UNCHANGED <<aux, user_profile, fetched>>
    /\ UNCHANGED <<byName, running, clock, rateVars, retryVars, httpVars, perfVars, avatarVars, sharedVars, warmVars, _ttl, _max_size, cLast,
                   written, recency, win, calls>>

\* the primary request fails: the retry wrapper sleeps or gives up
PrimaryFail ==
    /\ main.pc = "net"
    /\ \E k \in PrimaryErrorKinds :
        /\ main' = PrimaryFailure(main,
                      [kind |-> k, inv |-> Len(primaryLog) + 1], clock)
        /\ primaryLog' = Append(primaryLog, k)
    /\ UNCHANGED <<byName, running, clock, rateVars, retryVars, httpVars, perfVars, avatarVars, sharedVars, warmVars, cacheVars, win, aux,
                   user_profile, calls, fetched>>

\* the sleep of get_user's retry wrapper ends: the next attempt starts
MainWake ==
    /\ main.pc = "sleep"
    /\ clock' = IF main.wake > clock THEN main.wake ELSE clock
    /\ LET r == RequestStart(_cache, _access_order, "GET", UserKey(main.uid),
                             TRUE, clock', _ttl)
           t == [main EXCEPT !.attempt = main.attempt + 1, !.wake = 0] IN
        /\ _cache' = r.cache
        /\ _access_order' = r.order
        /\ CASE r.kind = "hit" -> AfterPrimary(t, r.data, "hit", primaryLog)
             [] r.kind = "net" ->
                  /\ main' = [t EXCEPT !.pc = "net"]
                  /\ UNCHANGED <<primaryLog, aux, user_profile, fetched>>
             [] r.kind = "raise" ->
                  /\ main' = PrimaryFailure(t, Exc(r.exc), clock')
                  /\ primaryLog' = Append(primaryLog, r.exc)
                  /\ UNCHANGED <<aux, user_profile, fetched>>
    /\ UNCHANGED <<byName, running, rateVars, retryVars, httpVars, perfVars, avatarVars, sharedVars, warmVars, _ttl, _max_size, cLast, written,
                   recency, win, calls>>

\* Time moves only when every unfinished coroutine sleeps (a request is
\* answered before the next backoff ends), and then to the earliest wake-up
Earliest(t) ==
    \A s \in AuxSlots :
        /\ aux[s].pc \in {"sleep", "done"}
        /\ aux[s].pc = "sleep" => t <= aux[s].wake

\* one pass of the retry loop of a count method, up to its first suspension
AuxAttempt(s, t) ==
    LET r == RequestStart(_cache, _access_order, "GET",
                          AuxKey(s, main.uid), TRUE, clock', _ttl) IN
    /\ _cache' = r.cache
    /\ _access_order' = r.order
    /\ CASE r.kind = "hit" ->
              /\ aux' = [aux EXCEPT ![s] =
                          [t EXCEPT !.pc = "done",
                                    !.result = [kind |-> "return",
                                        value |-> DictGet(r.data, "count", 0)]]]
              /\ fetched' = [fetched EXCEPT !.aux[s] = r.data]
         [] r.kind = "net" ->
              /\ aux' = [aux EXCEPT ![s] = [t EXCEPT !.pc = "net"]]
              /\ UNCHANGED fetched
         [] r.kind = "raise" ->
              /\ aux' = [aux EXCEPT ![s] = RetryOnFail(t, Exc(r.exc), clock')]
              /\ UNCHANGED fetched

\* gather starts a count coroutine: its rate limiter, then its retry loop
AuxStart ==
    /\ main.pc = "gather"
    /\ \E s \in AuxSlots :
        /\ aux[s].pc = "new"
        /\ LET r == RateWrapper(win[AuxOp(s)], clock, LimitOf(AuxOp(s))) IN
            /\ win' = [win EXCEPT ![AuxOp(s)] = r.window]
            /\ clock' = clock
            /\ IF r.admitted
               THEN AuxAttempt(s, aux[s])
               ELSE /\ aux' = [aux EXCEPT ![s] =
                                [@ EXCEPT !.pc = "done",
                                          !.result = [kind |-> "raise",
                                              exc |-> Exc("RateLimitError")]]]
                    /\ UNCHANGED <<_cache, _access_order, fetched>>
    /\ UNCHANGED <<byName, running, rateVars, retryVars, httpVars, perfVars, avatarVars, sharedVars, warmVars, _ttl, _max_size, cLast, written,
                   recency, main, user_profile, calls, primaryLog>>

\* a count request is answered 200: the body is cached, the count returned
AuxOk ==
    /\ \E s \in AuxSlots, data \in CountBodies :
        /\ aux[s].pc = "net"
        /\ LET r == RequestDone(_cache, _access_order, "GET",
                                AuxKey(s, main.uid), TRUE, data, clock,
                                _max_size) IN
            /\ _cache' = r.cache
            /\ _access_order' = r.order
            /\ IF r.raised = ""
               THEN /\ aux' = [aux EXCEPT ![s] =
                                [@ EXCEPT !.pc = "done",
                                          !.result = [kind |-> "return",
                                              value |-> DictGet(data, "count", 0)]]]
                    /\ fetched' = [fetched EXCEPT !.aux[s] = data]
               ELSE /\ aux' = [aux EXCEPT ![s] =
                                RetryOnFail(@, Exc(r.raised), clock)]
                    /\ UNCHANGED fetched
    /\ UNCHANGED <<byName, running, clock, rateVars, retryVars, httpVars, perfVars, avatarVars, sharedVars, warmVars, _ttl, _max_size, cLast,
                   written, recency, win, main, user_profile, calls,
                   primaryLog>>

\* a count request fails: its retry wrapper sleeps or gives up
AuxFail ==
    /\ \E s \in AuxSlots, k \in AuxErrorKinds :
        /\ aux[s].pc = "net"
        /\ aux' = [aux EXCEPT ![s] = RetryOnFail(@, Exc(k), clock)]
    /\ UNCHANGED <<byName, running, clock, rateVars, retryVars, httpVars, perfVars, avatarVars, sharedVars, warmVars, cacheVars, win, main,
                   user_profile, calls, primaryLog, fetched>>

\* the sleep of a count method's retry wrapper ends: its next attempt starts
AuxWake ==
    /\ \E s \in AuxSlots :
        /\ aux[s].pc = "sleep"
        /\ Earliest(aux[s].wake)
        /\ clock' = IF aux[s].wake > clock THEN aux[s].wake ELSE clock
        /\ AuxAttempt(s, [aux[s] EXCEPT !.attempt = @ + 1, !.wake = 0])
    /\ UNCHANGED <<byName, running, rateVars, retryVars, httpVars, perfVars, avatarVars, sharedVars, warmVars, _ttl, _max_size, cLast, written,
                   recency, win, main, user_profile, calls, primaryLog>>

\* gather(*count_tasks, return_exceptions=True) returns: the counts are
\* merged into a new UserProfile, which get_user returns
Gathered ==
    /\ main.pc = "gather"
    /\ \A s \in AuxSlots : aux[s].pc = "done"
    /\ user_profile' = Merge(user_profile, [s \in AuxSlots |-> aux[s].result])
    /\ main' = [main EXCEPT !.pc = "done",
                            !.result = [kind |-> "return",
                                        value |-> user_profile']]
    /\ UNCHANGED <<byName, running, clock, rateVars, retryVars, httpVars, perfVars, avatarVars, sharedVars, warmVars, cacheVars, win, aux, calls,
                   primaryLog, fetched>>

\* a minute passes after a client call
ClientAdvance ==
    /\ main.pc = "done"
    /\ advances < 1
    /\ advances' = advances + 1
    /\ clock' = clock + WindowTicks
    /\ UNCHANGED <<byName, running, call_times, rateLog, retryVars, httpVars, perfVars, avatarVars, sharedVars, cacheVars, clientVars, warmVars>>

UserNext ==
    \/ UserCall
    \/ PrimaryOk
    \/ PrimaryFail
    \/ MainWake
    \/ AuxStart
    \/ AuxOk
    \/ AuxFail
    \/ AuxWake
    \/ Gathered
    \/ ClientAdvance

----------------------------------------------------------------------------
(* UmbralClient.warm_cache and get_users_batch: src/umbral/client.py *)

\* the lengths of the lists handed to the client
WarmSizes == {0, 1, ChunkSize - 1, ChunkSize, ChunkSize + 1, 2 * ChunkSize,
              BatchCeiling + 1, MaxWarmIds}

\* lists of distinct ids, and lists in which ids repeat
WarmInputs ==
    {[i \in 1..n |-> i] : n \in WarmSizes} \cup
    {[i \in 1..n |-> (i % 3) + 1] : n \in WarmSizes}

\* a mutant of the slice: its upper bound is included
SliceInclusive(s, i, j) ==
    SubSeq(s, i + 1, IF j + 1 < Len(s) THEN j + 1 ELSE Len(s))

\* s[i : j], for 0 <= i <= j
Slice(s, i, j) == SubSeq(s, i + 1, IF j < Len(s) THEN j ELSE Len(s))

\* for i in range(0, len(user_ids), chunk_size):
\*     chunk = user_ids[i : i + chunk_size]
\*     tasks.append(self.get_users_batch(chunk))
RECURSIVE ChunkLoop(_, _, _)
ChunkLoop(ids, i, tasks) ==
    IF i >= Len(ids)
    THEN tasks
    ELSE ChunkLoop(ids, i + ChunkSize,
                   Append(tasks, Slice(ids, i, i + ChunkSize)))

\* a get_users_batch coroutine that has not run yet
NewBatch(chunk) ==
    [pc |-> "new", chunk |-> chunk, admitted |-> FALSE, attempt |-> 0,
     last |-> None, wake |-> 0, posted |-> 0, result |-> None]

NoWarm == [op |-> "none", pc |-> "idle", result |-> None]

WarmIdle ==
    /\ user_ids = <<>>
    /\ warm = NoWarm
    /\ batch = <<>>
    /\ batchArgs = <<>>

\* A client whose get_users_batch was not called of late, or was called so
\* often that two more calls are admitted, or none
WarmInit ==
    /\ win \in {[op \in ClientOps |->
                    IF op = "get_users_batch" THEN WindowOf(n) ELSE <<>>] :
                 n \in {0, GetUsersBatchLimit - 2, GetUsersBatchLimit}}
    /\ main = IdleTask
    /\ aux = [s \in AuxSlots |-> NoAux]
    /\ user_profile = Absent
    /\ calls = 0
    /\ primaryLog = <<>>
    /\ fetched = NoFetch
    /\ user_ids \in WarmInputs
    /\ warm = NoWarm
    /\ batch = <<>>
    /\ batchArgs = <<>>

BatchKey == CacheKeyOf("POST", Url("users", <<"/v1/users">>), NoParams)

\* response bodies of POST /v1/users: one without data, one with one user
\* that has no created field
BatchBodies(chunk) ==
    { [errors |-> 0],
      [data |-> <<[id |-> chunk[1], name |-> "alice"]>>] }

BatchErrorKinds == {"NetworkError"}

\* the loop over response.get("data", [])
ParseBatch(response, now) ==
    LET data == DictGet(response, "data", <<>>) IN
    [i \in 1..Len(data) |->
        IF "created" \in DOMAIN data[i]
        THEN ParseUserProfile(data[i])
        ELSE [id |-> data[i]["id"],
              username |-> data[i]["name"],
              display_name |-> DictGet(data[i], "displayName",
                                       data[i]["name"]),
              description |-> DictGet(data[i], "description", ""),
              created_date |-> [now |-> now],
              follower_count |-> 0,
              following_count |-> 0,
              friend_count |-> 0,
              is_verified |-> DictGet(data[i], "hasVerifiedBadge", FALSE)]]

\* the POST of get_users_batch, up to its suspension
BatchPost(t, now) ==
    LET r == RequestStart(_cache, _access_order, "POST", BatchKey,
                          FALSE, now, _ttl) IN
    CASE r.kind = "net" ->
            [t EXCEPT !.pc = "net", !.posted = t.posted + 1]
      [] r.kind = "hit" ->
            [t EXCEPT !.pc = "done",
                      !.result = [kind |-> "return",
                                  value |-> ParseBatch(r.data, now)]]
      [] r.kind = "raise" -> RetryOnFail(t, Exc(r.exc), now)

\* a mutant of get_users_batch: the list is posted whatever its length
BatchAttemptUnchecked(t, now) ==
    IF t.chunk = <<>>
    THEN [t EXCEPT !.pc = "done",
                   !.result = [kind |-> "return", value |-> <<>>]]
    ELSE BatchPost(t, now)

\* one pass of the retry loop of get_users_batch, up to its first suspension:
\* the size check, the empty list, the POST
BatchAttempt(t, now) ==
    IF Len(t.chunk) > BatchCeiling
    THEN RetryOnFail(t, [kind |-> "ValueError", inv |-> t.attempt + 1], now)
    ELSE IF t.chunk = <<>>
    THEN [t EXCEPT !.pc = "done",
                   !.result = [kind |-> "return", value |-> <<>>]]
    ELSE BatchPost(t, now)

\* await client.warm_cache(user_ids), up to the gather
WarmCall ==
    /\ warm.pc = "idle"
    /\ IF user_ids = <<>>
       THEN /\ warm' = [op |-> "warm_cache", pc |-> "done",
                        result |-> [kind |-> "return", value |-> None]]
            /\ batch' = <<>>
       ELSE /\ warm' = [op |-> "warm_cache", pc |-> "gather",
                        result |-> None]
            /\ LET tasks == ChunkLoop(user_ids, 0, <<>>) IN
               batch' = [k \in 1..Len(tasks) |-> NewBatch(tasks[k])]
    /\ UNCHANGED <<byName, running, clock, rateVars, retryVars, httpVars, perfVars, avatarVars, sharedVars, cacheVars, clientVars,
                   user_ids, batchArgs>>

\* await client.get_users_batch(user_ids), made by the caller itself
BatchCall ==
    /\ warm.pc = "idle"
    /\ warm' = [op |-> "get_users_batch", pc |-> "await", result |-> None]
    /\ batch' = <<NewBatch(user_ids)>>
    /\ UNCHANGED <<byName, running, clock, rateVars, retryVars, httpVars, perfVars, avatarVars, sharedVars, cacheVars, clientVars,
                   user_ids, batchArgs>>

\* the event loop runs the coroutines in the order they were created
NextNew(k) ==
    /\ k \in DOMAIN batch
    /\ batch[k].pc = "new"
    /\ \A j \in 1..(k - 1) : batch[j].pc # "new"

\* a get_users_batch coroutine starts: its rate limiter, then its retry loop
BatchStart ==
    /\ \E k \in DOMAIN batch :
        /\ NextNew(k)
        /\ batchArgs' = Append(batchArgs, batch[k].chunk)
        /\ LET r == RateWrapper(win["get_users_batch"], clock,
                                LimitOf("get_users_batch")) IN
            /\ win' = [win EXCEPT !["get_users_batch"] = r.window]
            /\ batch' = [batch EXCEPT ![k] =
                           IF r.admitted
                           THEN BatchAttempt([@ EXCEPT !.admitted = TRUE],
                                             clock)
                           ELSE [@ EXCEPT !.pc = "done",
                                          !.result = [kind |-> "raise",
                                              exc |-> Exc("RateLimitError")]]]
    /\ UNCHANGED <<byName, running, clock, rateVars, retryVars, httpVars, perfVars, avatarVars, sharedVars, cacheVars, main, aux,
                   user_profile, calls, primaryLog, fetched, user_ids, warm>>

AllStarted == \A k \in DOMAIN batch : batch[k].pc # "new"

\* a POST is answered 200: nothing is cached, the users are parsed
BatchOk ==
    /\ AllStarted
    /\ \E k \in DOMAIN batch :
        /\ batch[k].pc = "net"
        /\ \E data \in BatchBodies(batch[k].chunk) :
            LET r == RequestDone(_cache, _access_order, "POST", BatchKey,
                                 FALSE, data, clock, _max_size) IN
            /\ _cache' = r.cache
            /\ _access_order' = r.order
            /\ batch' = [batch EXCEPT ![k] =
                           [@ EXCEPT !.pc = "done",
                                     !.result = [kind |-> "return",
                                         value |-> ParseBatch(data, clock)]]]
    /\ UNCHANGED <<byName, running, clock, rateVars, retryVars, httpVars, perfVars, avatarVars, sharedVars, _ttl, _max_size, cLast,
                   written, recency, clientVars, user_ids, warm, batchArgs>>

\* a POST fails: the retry wrapper sleeps or gives up
BatchFail ==
    /\ AllStarted
    /\ \E k \in DOMAIN batch, e \in BatchErrorKinds :
        /\ batch[k].pc = "net"
        /\ batch' = [batch EXCEPT ![k] =
                       RetryOnFail(@, [kind |-> e, inv |-> @.attempt + 1],
                                   clock)]
    /\ UNCHANGED <<byName, running, clock, rateVars, retryVars, httpVars, perfVars, avatarVars, sharedVars, cacheVars, clientVars,
                   user_ids, warm, batchArgs>>

\* Time moves only when every unfinished coroutine sleeps, and then to the
\* earliest wake-up
EarliestBatch(t) ==
    \A k \in DOMAIN batch :
        /\ batch[k].pc \in {"sleep", "done"}
        /\ batch[k].pc = "sleep" => t <= batch[k].wake

\* the sleep of a retry wrapper ends: the next attempt starts
BatchWake ==
    /\ \E k \in DOMAIN batch :
        /\ batch[k].pc = "sleep"
        /\ EarliestBatch(batch[k].wake)
        /\ clock' = IF batch[k].wake > clock THEN batch[k].wake ELSE clock
        /\ batch' = [batch EXCEPT ![k] =
                       BatchAttempt([@ EXCEPT !.attempt = @ + 1, !.wake = 0],
                                    clock')]
    /\ UNCHANGED <<byName, running, rateVars, retryVars, httpVars, perfVars, avatarVars, sharedVars, cacheVars, clientVars, user_ids,
                   warm, batchArgs>>

\* a mutant of warm_cache: gather without return_exceptions, the first
\* failure of a chunk reaches the caller
WarmGatheredFailFast ==
    /\ warm.op = "warm_cache"
    /\ warm.pc = "gather"
    /\ \E k \in DOMAIN batch :
          /\ batch[k].pc = "done"
          /\ batch[k].result.kind = "raise"
          /\ warm' = [warm EXCEPT !.pc = "done", !.result = batch[k].result]
    /\ UNCHANGED <<byName, running, clock, rateVars, retryVars, httpVars, perfVars, avatarVars, sharedVars, cacheVars, clientVars,
                   user_ids, batch, batchArgs>>

\* gather(*tasks, return_exceptions=True) returns: warm_cache returns None
WarmGathered ==
    /\ warm.op = "warm_cache"
    /\ warm.pc = "gather"
    /\ \A k \in DOMAIN batch : batch[k].pc = "done"
    /\ warm' = [warm EXCEPT !.pc = "done",
                            !.result = [kind |-> "return", value |-> None]]
    /\ UNCHANGED <<byName, running, clock, rateVars, retryVars, httpVars, perfVars, avatarVars, sharedVars, cacheVars, clientVars,
                   user_ids, batch, batchArgs>>

\* the caller's own get_users_batch call ends
BatchReturned ==
    /\ warm.op = "get_users_batch"
    /\ warm.pc = "await"
    /\ batch[1].pc = "done"
    /\ warm' = [warm EXCEPT !.pc = "done", !.result = batch[1].result]
    /\ UNCHANGED <<byName, running, clock, rateVars, retryVars, httpVars, perfVars, avatarVars, sharedVars, cacheVars, clientVars,
                   user_ids, batch, batchArgs>>

WarmNext ==
    \/ WarmCall
    \/ BatchCall
    \/ BatchStart
    \/ BatchOk
    \/ BatchFail
    \/ BatchWake
    \/ WarmGathered
    \/ BatchReturned

----------------------------------------------------------------------------
(* UmbralClient.get_user_avatar: src/umbral/client.py *)

ThumbSlots == 1..3

\* avatar_tasks, in order: headshot, bust, full body
ThumbPath(s) ==
    <<"/v1/users/avatar-headshot", "/v1/users/avatar-bust",
      "/v1/users/avatar">>[s]

ThumbSize(s) == <<"48x48", "48x48", "420x420">>[s]

\* params={"userIds": str(user_id), "size": ..., "format": "Png"}
ThumbParams(s, uid) ==
    Dict(<< <<"userIds", ToString(uid)>>, <<"size", ThumbSize(s)>>,
            <<"format", "Png">> >>)

ThumbKey(s, uid) ==
    CacheKeyOf("GET", Url("thumbnails", <<ThumbPath(s)>>), ThumbParams(s, uid))

\* response bodies of the thumbnail endpoints: one image, or none
ThumbBodies == { [data |-> <<[imageUrl |-> "https://tr.rbxcdn.com/1"]>>],
                 [data |-> <<>>] }

\* {}
EmptyDict == <<>>

\* _extract_thumbnail_url
ExtractThumbnailUrl(response) ==
    IF "data" \notin DOMAIN response THEN ""
    ELSE IF Len(response["data"]) = 0 THEN ""
    ELSE DictGet(response["data"][1], "imageUrl", "")

\* x if not isinstance(x, Exception) else {}
ResponseOrDefault(r) == IF r.kind = "return" THEN r.value ELSE EmptyDict

NoThumb == [pc |-> "none", sent |-> 0, result |-> None]

NewThumb == [NoThumb EXCEPT !.pc = "new"]

AvatarIdle ==
    /\ avatar = IdleTask
    /\ thumbs = [s \in ThumbSlots |-> NoThumb]
    /\ avatarCalls = 0

\* A client whose get_user_avatar was not called of late, or was called up
\* to its limit
AvatarInit ==
    /\ win \in {[op \in ClientOps |->
                    IF op = "get_user_avatar" THEN WindowOf(n) ELSE <<>>] :
                 n \in {0, AvatarLimit}}
    /\ main = IdleTask
    /\ aux = [s \in AuxSlots |-> NoAux]
    /\ user_profile = Absent
    /\ calls = 0
    /\ primaryLog = <<>>
    /\ fetched = NoFetch
    /\ AvatarIdle

\* await client.get_user_avatar(uid): the rate limiter, the retry loop, the
\* three coroutines of self._http.get, the gather
AvatarCall ==
    /\ avatar.pc \in {"idle", "done"}
    /\ avatarCalls < MaxAvatarCalls
    /\ avatarCalls' = avatarCalls + 1
    /\ \E uid \in UserIds :
        LET r == RateWrapper(win["get_user_avatar"], clock,
                             LimitOf("get_user_avatar")) IN
        /\ win' = [win EXCEPT !["get_user_avatar"] = r.window]
        /\ IF r.admitted
           THEN /\ avatar' = [IdleTask EXCEPT !.uid = uid, !.pc = "gather"]
                /\ thumbs' = [s \in ThumbSlots |-> NewThumb]
           ELSE /\ avatar' = [IdleTask EXCEPT
                                !.uid = uid,
                                !.pc = "done",
                                !.result = [kind |-> "raise",
                                            exc |-> Exc("RateLimitError")]]
                /\ thumbs' = [s \in ThumbSlots |-> NoThumb]
    /\ UNCHANGED <<byName, running, clock, rateVars, retryVars, cacheVars, main, aux,
                   user_profile, calls, primaryLog, fetched, warmVars,
                   httpVars, perfVars, sharedVars>>

\* gather starts the thumbnail requests in the order they were created: the
\* cache is read, then the request sent
ThumbStart ==
    /\ avatar.pc = "gather"
    /\ \E s \in ThumbSlots :
        /\ thumbs[s].pc = "new"
        /\ \A j \in 1..(s - 1) : thumbs[j].pc # "new"
        /\ LET r == RequestStart(_cache, _access_order, "GET",
                                 ThumbKey(s, avatar.uid), TRUE, clock, _ttl) IN
            /\ _cache' = r.cache
            /\ _access_order' = r.order
            /\ thumbs' = [thumbs EXCEPT ![s] =
                  CASE r.kind = "hit" ->
                          [@ EXCEPT !.pc = "done",
                                    !.result = [kind |-> "return",
                                                value |-> r.data]]
                    [] r.kind = "net" ->
                          [@ EXCEPT !.pc = "net", !.sent = @ + 1]
                    [] r.kind = "raise" ->
                          [@ EXCEPT !.pc = "done",
                                    !.result = [kind |-> "raise",
                                                exc |-> Exc(r.exc)]]]
    /\ UNCHANGED <<byName, running, clock, rateVars, retryVars, _ttl, _max_size, cLast,
                   written, recency, clientVars, warmVars, httpVars,
                   perfVars, sharedVars, avatar, avatarCalls>>

\* a thumbnail request is answered 200: the body is cached and returned
ThumbOk ==
    /\ \A j \in ThumbSlots : thumbs[j].pc # "new"
    /\ \E s \in ThumbSlots, data \in ThumbBodies :
        /\ thumbs[s].pc = "net"
        /\ LET r == RequestDone(_cache, _access_order, "GET",
                                ThumbKey(s, avatar.uid), TRUE, data, clock,
                                _max_size) IN
            /\ _cache' = r.cache
            /\ _access_order' = r.order
            /\ thumbs' = [thumbs EXCEPT ![s] =
                  [@ EXCEPT !.pc = "done",
                            !.result = IF r.raised = ""
                                       THEN [kind |-> "return",
                                             value |-> data]
                                       ELSE [kind |-> "raise",
                                             exc |-> Exc(r.raised)]]]
    /\ UNCHANGED <<byName, running, clock, rateVars, retryVars, _ttl, _max_size, cLast,
                   written, recency, clientVars, warmVars, httpVars,
                   perfVars, sharedVars, avatar, avatarCalls>>

\* a thumbnail request fails: its coroutine raises, gather keeps the exception
ThumbFail ==
    /\ \A j \in ThumbSlots : thumbs[j].pc # "new"
    /\ \E s \in ThumbSlots, k \in AuxErrorKinds :
        /\ thumbs[s].pc = "net"
        /\ thumbs' = [thumbs EXCEPT ![s] =
              [@ EXCEPT !.pc = "done",
                        !.result = [kind |-> "raise", exc |-> Exc(k)]]]
    /\ UNCHANGED <<byName, running, clock, rateVars, retryVars, cacheVars, clientVars,
                   warmVars, httpVars, perfVars, sharedVars, avatar,
                   avatarCalls>>

\* gather(*avatar_tasks, return_exceptions=True) returns: the URLs are
\* extracted and get_user_avatar returns the UserAvatar
AvatarGathered ==
    /\ avatar.pc = "gather"
    /\ \A s \in ThumbSlots : thumbs[s].pc = "done"
    /\ LET url(s) == ExtractThumbnailUrl(ResponseOrDefault(thumbs[s].result))
       IN avatar' = [avatar EXCEPT
                      !.pc = "done",
                      !.result = [kind |-> "return",
                                  value |-> [user_id |-> avatar.uid,
                                             headshot_url |-> url(1),
                                             bust_url |-> url(2),
                                             full_body_url |-> url(3)]]]
    /\ UNCHANGED <<byName, running, clock, rateVars, retryVars, cacheVars, clientVars,
                   warmVars, httpVars, perfVars, sharedVars, thumbs,
                   avatarCalls>>

AvatarNext ==
    \/ AvatarCall
    \/ ThumbStart
    \/ ThumbOk
    \/ ThumbFail
    \/ AvatarGathered

----------------------------------------------------------------------------
(* Two UmbralClient instances in one process: the deque of rate_limit is
   created when the method is decorated, in the class body *)

Clients == {"A", "B"}

\* the method both instances call
SharedOp == "get_user_follower_count"

SharedIdle ==
    /\ instLog = <<>>
    /\ own = [c \in Clients |-> <<>>]

\* Instance A has made no call of late, or calls up to one short of the
\* limit, or up to the limit
SharedInit ==
    \E n \in {0, LimitOf(SharedOp) - 1, LimitOf(SharedOp)} :
        /\ win = [op \in ClientOps |->
                    IF op = SharedOp THEN WindowOf(n) ELSE <<>>]
        /\ own = [c \in Clients |-> IF c = "A" THEN WindowOf(n) ELSE <<>>]
        /\ instLog = <<>>
        /\ main = IdleTask
        /\ aux = [s \in AuxSlots |-> NoAux]
        /\ user_profile = Absent
        /\ calls = 0
        /\ primaryLog = <<>>
        /\ fetched = NoFetch

\* the seconds a call spends in the sleeps of its retry wrapper when every
\* request fails
RECURSIVE BackoffTotal(_)
BackoffTotal(n) ==
    IF n = 0 THEN 0 ELSE BackoffTotal(n - 1) + RetryDelay(BackoffTicks, n - 1)

\* await c.get_user_follower_count(uid) through instance c: the wrapper of
\* the method, then its body, which returns at once or fails after its retries
InstanceCall ==
    /\ Len(instLog) < MaxInstanceCalls
    /\ \E c \in Clients, ok \in BOOLEAN :
        LET r == RateWrapper(win[SharedOp], clock, LimitOf(SharedOp))
            a == RateWrapper(own[c], clock, LimitOf(SharedOp)) IN
        /\ (~r.admitted) => ok
        /\ win' = [win EXCEPT ![SharedOp] = r.window]
        /\ own' = [own EXCEPT ![c] = a.window]
        /\ clock' = IF r.admitted /\ ~ok
                    THEN clock + BackoffTotal(ClientMaxRetries)
                    ELSE clock
        /\ instLog' = Append(instLog,
                [client |-> c, t |-> clock, admitted |-> r.admitted,
                 alone |-> a.admitted,
                 outcome |-> IF ~r.admitted THEN "RateLimitError"
                             ELSE IF ok THEN "return" ELSE "NetworkError"])
    /\ UNCHANGED <<byName, running, rateVars, retryVars, cacheVars, main, aux, user_profile,
                   calls, primaryLog, fetched, warmVars, httpVars, perfVars, avatarVars>>

\* time passes between two calls
SharedAdvance ==
    /\ advances < MaxSharedAdvances
    /\ advances' = advances + 1
    /\ \E d \in {TicksPerSecond, WindowTicks - 1, WindowTicks} :
        clock' = clock + d
    /\ UNCHANGED <<byName, running, call_times, rateLog, retryVars, cacheVars, clientVars,
                   warmVars, httpVars, perfVars, avatarVars, sharedVars>>

SharedNext ==
    \/ InstanceCall
    \/ SharedAdvance

----------------------------------------------------------------------------
(* UmbralClient.get_user_by_username: src/umbral/client.py, lines 254-290 *)

NoByName == [pc |-> "idle", attempt |-> 0, last |-> None, wake |-> 0,
             result |-> None, admitted |-> FALSE, posts |-> 0, inner |-> 0,
             gets |-> 0]

ByNameIdle == byName = NoByName

\* response bodies of POST /v1/usernames/users: no match, one match
UsernameBodies == { [data |-> <<>>], [data |-> <<[id |-> 1]>>] }

\* the POST of get_user_by_username; post() never reads or writes the cache
ByNamePost(t) == [t EXCEPT !.pc = "post", !.posts = @ + 1]

\* the primary requests a get_user call sent to the network
NetworkGets(log) == Len(SelectSeq(log, LAMBDA how : how # "hit"))

\* await client.get_user_by_username(name): the rate limiter, then the retry
\* loop, up to the POST
ByNameCall ==
    /\ byName.pc = "idle"
    /\ main.pc = "idle"
    /\ LET r == RateWrapper(win["get_user_by_username"], clock,
                            LimitOf("get_user_by_username")) IN
        /\ win' = [win EXCEPT !["get_user_by_username"] = r.window]
        /\ byName' = IF r.admitted
                     THEN ByNamePost([byName EXCEPT !.admitted = TRUE])
                     ELSE [byName EXCEPT
                             !.pc = "done",
                             !.result = [kind |-> "raise",
                                         exc |-> Exc("RateLimitError")]]
    /\ UNCHANGED <<clock, rateVars, retryVars, cacheVars, main, aux,
                   user_profile, calls, primaryLog, fetched, warmVars,
                   httpVars, perfVars, sharedVars, avatarVars, running>>

\* the POST is answered 200: no match raises UserNotFoundError inside the
\* retry loop; a match goes on to `return await self.get_user(user_id)`,
\* which is a call through get_user's own rate limiter and retry wrapper
ByNamePostOk ==
    /\ byName.pc = "post"
    /\ \E response \in UsernameBodies :
        IF DictGet(response, "data", <<>>) = <<>>
        THEN /\ byName' = RetryOnFail(byName,
                              [kind |-> "UserNotFoundError",
                               inv |-> byName.attempt + 1], clock)
             /\ UNCHANGED <<win, main, aux, user_profile, primaryLog,
                            fetched, _cache, _access_order>>
        ELSE LET uid == response.data[1].id
                 r == RateWrapper(win["get_user"], clock,
                                  LimitOf("get_user")) IN
             /\ byName' = [byName EXCEPT !.pc = "inner", !.inner = @ + 1]
             /\ win' = [win EXCEPT !["get_user"] = r.window]
             /\ IF r.admitted
                THEN PrimaryAttempt([IdleTask EXCEPT !.uid = uid], uid, <<>>)
                ELSE /\ main' = [IdleTask EXCEPT
                                   !.uid = uid,
                                   !.pc = "done",
                                   !.result = [kind |-> "raise",
                                       exc |-> Exc("RateLimitError")]]
                     /\ aux' = AuxAfter(FALSE)
                     /\ user_profile' = Absent
                     /\ primaryLog' = <<>>
                     /\ fetched' = NoFetch
                     /\ UNCHANGED <<_cache, _access_order>>
    /\ UNCHANGED <<clock, rateVars, retryVars, _ttl, _max_size, cLast,
                   written, recency, calls, warmVars, httpVars, perfVars,
                   sharedVars, avatarVars, running>>

\* the POST fails: the retry wrapper sleeps or gives up
ByNamePostFail ==
    /\ byName.pc = "post"
    /\ \E k \in AuxErrorKinds :
        byName' = RetryOnFail(byName,
                      [kind |-> k, inv |-> byName.attempt + 1], clock)
    /\ UNCHANGED <<clock, rateVars, retryVars, cacheVars, clientVars,
                   warmVars, httpVars, perfVars, sharedVars, avatarVars,
                   running>>

\* the awaited get_user call ends: its profile is returned, or its exception
\* is raised inside the retry loop of get_user_by_username
ByNameInnerDone ==
    /\ byName.pc = "inner"
    /\ main.pc = "done"
    /\ LET t == [byName EXCEPT !.gets = @ + NetworkGets(primaryLog)] IN
        byName' = IF main.result.kind = "return"
                  THEN [t EXCEPT !.pc = "done", !.result = main.result]
                  ELSE RetryOnFail(t, main.result.exc, clock)
    /\ UNCHANGED <<clock, rateVars, retryVars, cacheVars, clientVars,
                   warmVars, httpVars, perfVars, sharedVars, avatarVars,
                   running>>

\* the sleep of the retry wrapper ends: the body runs again from its POST
ByNameWake ==
    /\ byName.pc = "sleep"
    /\ clock' = IF byName.wake > clock THEN byName.wake ELSE clock
    /\ byName' = ByNamePost([byName EXCEPT !.attempt = @ + 1, !.wake = 0])
    /\ UNCHANGED <<rateVars, retryVars, cacheVars, clientVars, warmVars,
                   httpVars, perfVars, sharedVars, avatarVars, running>>

\* the retries of the auxiliary requests are explored under SpecUser; here
\* the network answers them, and fails the POST and the primary request at will
ByNameNext ==
    \/ ByNameCall
    \/ ByNamePostOk
    \/ ByNamePostFail
    \/ ByNameInnerDone
    \/ ByNameWake
    \/ PrimaryOk
    \/ PrimaryFail
    \/ MainWake
    \/ AuxStart
    \/ AuxOk
    \/ Gathered

----------------------------------------------------------------------------
(* K concurrent calls of one operation decorated as the client methods are: *)
(* @rate_limit(ConcLimit) over @retry_on_failure(MaxConcRetries, 1.0) over  *)
(* a network request: src/umbral/client.py, lines 616-618                   *)

NewTask == [pc |-> "new", attempt |-> 0, last |-> None, wake |-> 0,
            result |-> None, admitted |-> FALSE, requests |-> 0,
            slept |-> 0]

ConcIdle == running = <<>>

ConcInit == running = [k \in 1..MaxTasks |-> NewTask]

\* what the wrapper of rate_limit leaves in rateLog for the call of task k
Admission(k, r, before) ==
    [t |-> clock, admitted |-> r.admitted, hint |-> r.hint,
     before |-> before, after |-> r.window, invoked |-> r.admitted,
     raised |-> IF r.admitted THEN "" ELSE "RateLimitError", task |-> k]

\* the except clause of the retry wrapper of the operation, which has
\* max_retries = MaxConcRetries
TaskOnFail(t, e, now) ==
    IF ~Caught(e.kind)
    THEN [t EXCEPT !.pc = "done", !.result = [kind |-> "raise", exc |-> e]]
    ELSE LET last == Remember(t.last, e) IN
         IF RetryIsLast(t.attempt, MaxConcRetries)
         THEN [t EXCEPT !.pc = "done", !.last = last,
                        !.result = AfterLoop(last)]
         ELSE [t EXCEPT !.pc = "sleep", !.last = last, !.slept = @ + 1,
                        !.wake = now + RetryDelay(BackoffTicks, t.attempt)]

\* the function body starts a network request and is suspended in it
Requesting(t) == [t EXCEPT !.pc = "net", !.requests = @ + 1]

\* the calls are numbered in the order in which they start
NextCall(k) ==
    /\ k \in DOMAIN running
    /\ running[k].pc = "new"
    /\ \A j \in 1..(k - 1) : running[j].pc # "new"

\* a mutant of the wrapper: two calls both test the window before either of
\* them records its time, as if the wrapper were suspended after its test
ConcStartRacy ==
    /\ \E k, j \in DOMAIN running :
        /\ NextCall(k)
        /\ j = k + 1
        /\ LET r == RateWrapper(call_times, clock, ConcLimit)
               q == IF r.admitted
                    THEN [r EXCEPT !.window = Append(@, clock)]
                    ELSE r IN
            /\ call_times' = q.window
            /\ rateLog' = rateLog \o <<Admission(k, r, call_times),
                                       Admission(j, q, call_times)>>
            /\ running' = [i \in DOMAIN running |->
                           IF i \in {k, j}
                           THEN IF r.admitted
                                THEN Requesting([running[i] EXCEPT
                                                   !.admitted = TRUE])
                                ELSE [running[i] EXCEPT
                                        !.pc = "done",
                                        !.result = [kind |-> "raise",
                                            exc |-> Exc("RateLimitError")]]
                           ELSE running[i]]
    /\ UNCHANGED <<byName, clock, advances, retryVars, cacheVars, clientVars,
                   warmVars, httpVars, perfVars, sharedVars, avatarVars>>

\* a call starts: the wrapper of rate_limit runs to its await, then the
\* wrapper of retry_on_failure and the body run to the network request
ConcStart ==
    /\ \E k \in DOMAIN running :
        /\ NextCall(k)
        /\ LET r == RateWrapper(call_times, clock, ConcLimit) IN
            /\ call_times' = r.window
            /\ rateLog' = Append(rateLog, Admission(k, r, call_times))
            /\ running' = [running EXCEPT ![k] =
                           IF r.admitted
                           THEN Requesting([@ EXCEPT !.admitted = TRUE])
                           ELSE [@ EXCEPT !.pc = "done",
                                          !.result = [kind |-> "raise",
                                              exc |-> Exc("RateLimitError")]]]
    /\ UNCHANGED <<byName, clock, advances, retryVars, cacheVars, clientVars,
                   warmVars, httpVars, perfVars, sharedVars, avatarVars>>

\* a request is answered 200: the call returns
ConcOk ==
    /\ \E k \in DOMAIN running :
        /\ running[k].pc = "net"
        /\ running' = [running EXCEPT ![k] =
                       [@ EXCEPT !.pc = "done",
                                 !.result = [kind |-> "return",
                                             value |-> 1]]]
    /\ UNCHANGED <<byName, clock, rateVars, retryVars, cacheVars, clientVars,
                   warmVars, httpVars, perfVars, sharedVars, avatarVars>>

\* a request fails: the retry wrapper sleeps or gives up
ConcFail ==
    /\ \E k \in DOMAIN running, e \in AuxErrorKinds :
        /\ running[k].pc = "net"
        /\ running' = [running EXCEPT ![k] =
                       TaskOnFail(@, [kind |-> e, inv |-> @.attempt + 1],
                                  clock)]
    /\ UNCHANGED <<byName, clock, rateVars, retryVars, cacheVars, clientVars,
                   warmVars, httpVars, perfVars, sharedVars, avatarVars>>

\* a sleeping call whose delay has passed; it may wake later than it is due
Due(k) ==
    /\ k \in DOMAIN running
    /\ running[k].pc = "sleep"
    /\ running[k].wake <= clock

\* a mutant of the decorator order: the admission is made again on each retry
ConcWakeReadmits ==
    /\ \E k \in DOMAIN running :
        /\ Due(k)
        /\ LET r == RateWrapper(call_times, clock, ConcLimit) IN
            /\ call_times' = r.window
            /\ rateLog' = Append(rateLog, Admission(k, r, call_times))
            /\ running' = [running EXCEPT ![k] =
                           IF r.admitted
                           THEN Requesting([@ EXCEPT !.attempt = @ + 1,
                                                     !.wake = 0])
                           ELSE [@ EXCEPT !.pc = "done",
                                          !.result = [kind |-> "raise",
                                              exc |-> Exc("RateLimitError")]]]
    /\ UNCHANGED <<byName, clock, advances, retryVars, cacheVars, clientVars,
                   warmVars, httpVars, perfVars, sharedVars, avatarVars>>

\* the sleep of the retry wrapper is over: the next attempt starts
ConcWake ==
    /\ \E k \in DOMAIN running :
        /\ Due(k)
        /\ running' = [running EXCEPT ![k] =
                       Requesting([@ EXCEPT !.attempt = @ + 1, !.wake = 0])]
    /\ UNCHANGED <<byName, clock, rateVars, retryVars, cacheVars, clientVars,
                   warmVars, httpVars, perfVars, sharedVars, avatarVars>>

\* time passes while the calls are suspended
ConcAdvance ==
    /\ advances < MaxConcAdvances
    /\ advances' = advances + 1
    /\ \E d \in {BackoffTicks, WindowTicks - 1, WindowTicks} :
        clock' = clock + d
    /\ UNCHANGED <<byName, call_times, rateLog, retryVars, cacheVars, clientVars,
                   warmVars, httpVars, perfVars, sharedVars, avatarVars,
                   running>>

ConcNext ==
    \/ ConcStart
    \/ ConcOk
    \/ ConcFail
    \/ ConcWake
    \/ ConcAdvance

----------------------------------------------------------------------------
(* Specifications *)

InitRate == clock = 0 /\ RateInit /\ RetryIdle /\ CacheIdle /\ ClientIdle /\ WarmIdle
    /\ HttpIdle /\ PerfIdle /\ SharedIdle /\ AvatarIdle /\ ConcIdle
    /\ ByNameIdle

NextRate == RateNext

SpecRate == InitRate /\ [][NextRate]_vars

InitRetry == clock = 0 /\ RateIdle /\ RetryInit /\ CacheIdle /\ ClientIdle /\ WarmIdle
    /\ HttpIdle /\ PerfIdle /\ SharedIdle /\ AvatarIdle /\ ConcIdle
    /\ ByNameIdle

NextRetry == RetryNext

SpecRetry == InitRetry /\ [][NextRetry]_vars

InitCache == clock = 0 /\ RateIdle /\ RetryIdle /\ CacheInit /\ ClientIdle /\ WarmIdle
    /\ HttpIdle /\ PerfIdle /\ SharedIdle /\ AvatarIdle /\ ConcIdle
    /\ ByNameIdle

NextCache == CacheNext

SpecCache == InitCache /\ [][NextCache]_vars

InitUser == clock = 0 /\ RateIdle /\ RetryIdle /\ HttpCacheInit /\ ClientInit /\ WarmIdle
    /\ HttpIdle /\ PerfIdle /\ SharedIdle /\ AvatarIdle /\ ConcIdle
    /\ ByNameIdle

NextUser == UserNext

SpecUser == InitUser /\ [][NextUser]_vars

InitWarm == clock = 0 /\ RateIdle /\ RetryIdle /\ HttpCacheInit /\ WarmInit
    /\ HttpIdle /\ PerfIdle /\ SharedIdle /\ AvatarIdle /\ ConcIdle
    /\ ByNameIdle

NextWarm == WarmNext

SpecWarm == InitWarm /\ [][NextWarm]_vars

InitHttp == clock = 0 /\ RateIdle /\ RetryIdle /\ HttpCacheInit /\ ClientIdle
    /\ WarmIdle /\ HttpIdle /\ PerfIdle /\ SharedIdle /\ AvatarIdle /\ ConcIdle
    /\ ByNameIdle

NextHttp == HttpNext

SpecHttp == InitHttp /\ [][NextHttp]_vars

InitShared == clock = 0 /\ RateIdle /\ RetryIdle /\ HttpCacheInit /\ SharedInit
    /\ WarmIdle /\ HttpIdle /\ PerfIdle /\ AvatarIdle /\ ConcIdle
    /\ ByNameIdle

NextShared == SharedNext

InitPerf == clock = 0 /\ RateIdle /\ RetryIdle /\ CacheIdle /\ ClientIdle
    /\ WarmIdle /\ HttpIdle /\ PerfInit /\ SharedIdle /\ AvatarIdle /\ ConcIdle
    /\ ByNameIdle

NextPerf == PerfNext

SpecPerf == InitPerf /\ [][NextPerf]_vars

InitStats == clock = 0 /\ RateIdle /\ RetryIdle /\ CacheIdle /\ ClientIdle
    /\ WarmIdle /\ HttpIdle /\ StatsInit /\ SharedIdle /\ AvatarIdle /\ ConcIdle
    /\ ByNameIdle

NextStats == StatsNext

SpecStats == InitStats /\ [][NextStats]_vars

InitAvatar == clock = 0 /\ RateIdle /\ RetryIdle /\ HttpCacheInit /\ AvatarInit
    /\ WarmIdle /\ HttpIdle /\ PerfIdle /\ SharedIdle /\ ConcIdle
    /\ ByNameIdle

NextAvatar == AvatarNext

SpecAvatar == InitAvatar /\ [][NextAvatar]_vars

InitConc == clock = 0 /\ RateInit /\ RetryIdle /\ CacheIdle /\ ClientIdle
    /\ WarmIdle /\ HttpIdle /\ PerfIdle /\ SharedIdle /\ AvatarIdle /\ ConcInit
    /\ ByNameIdle

NextConc == ConcNext

SpecConc == InitConc /\ [][NextConc]_vars

InitByName == clock = 0 /\ RateIdle /\ RetryIdle /\ HttpCacheInit /\ ClientInit
    /\ WarmIdle /\ HttpIdle /\ PerfIdle /\ SharedIdle /\ AvatarIdle /\ ConcIdle
    /\ ByNameIdle

NextByName == ByNameNext

SpecByName == InitByName /\ [][NextByName]_vars

SpecShared == InitShared /\ [][NextShared]_vars

----------------------------------------------------------------------------
(* Claims about retry_on_failure *)

AllFailedCaught ==
    \A i \in 1..Len(invocations) :
        ~invocations[i].ok /\ invocations[i].exc.kind \in ExceptionKinds

\* C2: for max_retries >= 0 an operation that fails on every attempt, with
\* exceptions of whatever kinds, is invoked exactly max_retries + 1 times; one
\* that first succeeds on its k-th invocation is invoked exactly k times and
\* its result is returned.
C2_InvocationCount ==
    max_retries >= 0 =>
        /\ Len(invocations) <= max_retries + 1
        /\ (rPc = "done" /\ AllFailedCaught)
              => Len(invocations) = max_retries + 1
        /\ \A k \in 1..Len(invocations) :
              invocations[k].ok =>
                  /\ rPc = "done"
                  /\ Len(invocations) = k
                  /\ rResult = [kind |-> "return",
                                value |-> invocations[k].value]

C2_Witness ==
    /\ max_retries = MaxRetriesBound
    /\ rPc = "done"
    /\ AllFailedCaught
    /\ Len(invocations) = max_retries + 1
    /\ {invocations[i].exc.kind : i \in 1..Len(invocations)} = ExceptionKinds

\* C3: when every attempt fails, the caller receives exactly the failure of
\* the last invocation, the (max_retries + 1)-th: not an earlier one, not an
\* aggregate, not a wrapper.
C3_LastFailureSurfaced ==
    (max_retries >= 0 /\ rPc = "done" /\ AllFailedCaught)
        => /\ Len(invocations) = max_retries + 1
           /\ rResult = [kind |-> "raise",
                         exc |-> invocations[max_retries + 1].exc]

C3_Witness ==
    /\ max_retries = MaxRetriesBound
    /\ rPc = "done"
    /\ AllFailedCaught
    /\ rResult.kind = "raise"
    /\ rResult.exc.inv = max_retries + 1
    /\ invocations[1].exc.kind # rResult.exc.kind

\* C4: the wait after the failure of attempt i (0-indexed, i < max_retries)
\* is backoff_factor * 2^i; no wait follows a success or the final failure;
\* an always-failing operation waits backoff_factor * (2^max_retries - 1) in
\* all.
C4_BackoffDelays ==
    max_retries >= 0 =>
        /\ \A i \in 1..Len(sleeps) :
              /\ i <= max_retries
              /\ sleeps[i] = backoff_factor * Pow2(i - 1)
              /\ ~invocations[i].ok
        /\ rPc = "sleep" => Len(sleeps) = Len(invocations)
        /\ rPc = "try" => Len(sleeps) = Len(invocations)
        /\ (rPc = "done" /\ invocations # <<>>)
              => Len(sleeps) = Len(invocations) - 1
        /\ (rPc = "done" /\ AllFailedCaught)
              => SeqSum(sleeps) = backoff_factor * (Pow2(max_retries) - 1)

C4_Witness ==
    /\ max_retries = 3
    /\ backoff_factor = 1
    /\ rPc = "done"
    /\ AllFailedCaught
    /\ sleeps = <<1, 2, 4>>

----------------------------------------------------------------------------
(* Claims about APICache *)

\* C5: if set(k, v) was the last set of k, k was not evicted for capacity and
\* now - storedAt <= ttl, then get(k) returns v; once now - storedAt > ttl,
\* get(k) returns absent, on every later get until a new set(k, .).
C5_SetThenGet ==
    (cLast.op = "get" /\ written[cLast.key].set) =>
        LET w == written[cLast.key] IN
        /\ cLast.raised = ""
        /\ cLast.result =
              IF cLast.t - w.storedAt <= _ttl * TicksPerSecond
              THEN w.value ELSE Absent

\* C6: when set(k, v) is called for a key that is not stored while the cache
\* holds max_size entries, exactly one entry is evicted, the key least
\* recently touched by a get hit or a set, and k is inserted.
C6_EvictsLeastRecentlyUsed ==
    (/\ cLast.op = "set"
     /\ cLast.key \notin cLast.preKeys
     /\ Cardinality(cLast.preKeys) = _max_size)
    => /\ cLast.raised = ""
       /\ cLast.evicted = {Head(cLast.preOrder)}
       /\ DOMAIN _cache = (cLast.preKeys \ cLast.evicted) \cup {cLast.key}

\* C7: after any sequence of get, set and clear on a cache with
\* max_size >= 1, the number of stored entries, which get_stats reports as
\* size, is at most max_size.
C7_SizeAtMostMax ==
    /\ Cardinality(DOMAIN _cache) <= _max_size
    /\ cLast.op = "stats" =>
          /\ cLast.result.size = Cardinality(DOMAIN _cache)
          /\ cLast.result.size <= cLast.result.max_size

C7_Witness ==
    /\ cLast.op = "stats"
    /\ cLast.result.size = _max_size
    /\ _max_size = MaxCacheSize
    /\ \E k \in CacheKeys : k \notin DOMAIN _cache /\ k \notin SeqRange(recency)

\* The same two statements on caches of two entries or more
C5_HoldsFromTwoEntries == _max_size >= 2 => C5_SetThenGet

C6_HoldsFromTwoEntries == _max_size >= 2 => C6_EvictsLeastRecentlyUsed

----------------------------------------------------------------------------
(* Claims about UmbralClient.get_user *)

Last(s) == s[Len(s)]

PrimarySucceeded == primaryLog # <<>> /\ Last(primaryLog) \in {"ok", "hit"}

CountField(p, s) ==
    <<p.follower_count, p.following_count, p.friend_count>>[s]

\* C8: when the primary fetch succeeds, whatever the three count fetches do
\* (a rejection by their own rate limiter included), get_user returns a
\* profile: each count is the value its slot fetched, or 0 when the slot
\* failed, never an exception, and the other fields are the primary's.
C8_CountsDefaultedPerSlot ==
    (main.pc = "done" /\ PrimarySucceeded) =>
        /\ main.result.kind = "return"
        /\ LET p == main.result.value
               q == ParseUserProfile(fetched.primary) IN
            /\ \A s \in AuxSlots :
                  /\ CountField(p, s) \in Nat
                  /\ CountField(p, s) =
                        IF aux[s].result.kind = "return"
                        THEN IF "count" \in DOMAIN fetched.aux[s]
                             THEN fetched.aux[s].count ELSE 0
                        ELSE 0
            /\ p.id = q.id
            /\ p.username = q.username
            /\ p.display_name = q.display_name
            /\ p.description = q.description
            /\ p.created_date = q.created_date
            /\ p.is_verified = q.is_verified

C8_Witness ==
    /\ main.pc = "done"
    /\ PrimarySucceeded
    /\ aux[1].result = [kind |-> "return", value |-> 3]
    /\ aux[2].result.kind = "raise"
    /\ aux[3].result = [kind |-> "return", value |-> 3]
    /\ main.result.kind = "return"
    /\ main.result.value.follower_count = 3
    /\ main.result.value.following_count = 0
    /\ main.result.value.friend_count = 3
    /\ main.result.value.display_name = "Al"

\* C9: no count fetch is issued before the primary fetch of the same attempt
\* has succeeded; if the primary fetch fails on all attempts, no count fetch
\* is ever issued and the caller receives the primary's failure.
C9_PrimaryBeforeAux ==
    /\ \A s \in AuxSlots :
          aux[s].pc # "none" =>
              /\ PrimarySucceeded
              /\ main.pc \in {"gather", "done"}
              /\ Len(primaryLog) = main.attempt + 1
    /\ (/\ main.pc = "done"
        /\ Len(primaryLog) = ClientMaxRetries + 1
        /\ ~PrimarySucceeded)
       => /\ \A s \in AuxSlots :
                aux[s].pc = "none" /\ fetched.aux[s] = Absent
          /\ main.result =
                [kind |-> "raise",
                 exc |-> [kind |-> Last(primaryLog),
                          inv |-> ClientMaxRetries + 1]]

C9_Witness ==
    /\ main.pc = "done"
    /\ Len(primaryLog) = ClientMaxRetries + 1
    /\ ~PrimarySucceeded
    /\ main.result.kind = "raise"
    /\ primaryLog[1] # Last(primaryLog)

C9_WitnessAfterRetry ==
    /\ main.pc = "gather"
    /\ main.attempt = 2
    /\ \E s \in AuxSlots : aux[s].pc = "net"

----------------------------------------------------------------------------
(* Claims about UmbralClient.warm_cache *)

Min(a, b) == IF a < b THEN a ELSE b

RECURSIVE Concat(_)
Concat(ss) == IF ss = <<>> THEN <<>> ELSE Head(ss) \o Concat(Tail(ss))

\* C10: warm_cache of n >= 1 ids runs exactly ceil(n/50) get_users_batch
\* calls; the i-th receives user_ids[50*i : 50*i+50], so every chunk has 1 to
\* 50 members and only the last may have fewer than 50, the chunks in order
\* concatenate to the input, none exceeds 100, and 120 ids give chunks of
\* 50, 50 and 20.
C10_ContiguousChunks ==
    (warm.op = "warm_cache" /\ Len(user_ids) >= 1 /\ AllStarted) =>
        LET n == Len(user_ids)
            m == Len(batchArgs) IN
        /\ m = (n + 49) \div 50
        /\ m = Len(batch)
        /\ \A i \in 1..m :
              /\ batchArgs[i] =
                    SubSeq(user_ids, 50 * (i - 1) + 1, Min(50 * i, n))
              /\ Len(batchArgs[i]) \in 1..50
              /\ i < m => Len(batchArgs[i]) = 50
              /\ Len(batchArgs[i]) <= 100
        /\ Concat(batchArgs) = user_ids
        /\ n = 120 => [i \in 1..m |-> Len(batchArgs[i])] = <<50, 50, 20>>

C10_Witness ==
    /\ warm.op = "warm_cache"
    /\ warm.pc = "done"
    /\ Len(user_ids) = MaxWarmIds
    /\ user_ids[4] = 2
    /\ Len(batchArgs) = 3
    /\ Len(batchArgs[3]) = MaxWarmIds - 100
    /\ batch[1].result.kind = "return"
    /\ batch[3].result.kind = "raise"

----------------------------------------------------------------------------
(* Claims about UmbralClient.get_users_batch *)

DirectCall == warm.op = "get_users_batch" /\ batch # <<>>

\* C11: a get_users_batch call with more than 100 ids never issues an HTTP
\* request, whatever the rate window holds and on every retry attempt, and
\* when its rate limiter admits it the caller receives the ValueError.
C11_OversizeNeverPosted ==
    (DirectCall /\ Len(user_ids) > 100) =>
        /\ batch[1].posted = 0
        /\ batch[1].pc # "net"
        /\ (warm.pc = "done" /\ batch[1].admitted) =>
              /\ warm.result.kind = "raise"
              /\ warm.result.exc.kind = "ValueError"

C11_Witness ==
    /\ DirectCall
    /\ Len(user_ids) = 101
    /\ Len(win["get_users_batch"]) = GetUsersBatchLimit - 1
    /\ batch[1].admitted
    /\ batch[1].attempt = ClientMaxRetries
    /\ warm.pc = "done"
    /\ warm.result.kind = "raise"
    /\ warm.result.exc.kind = "ValueError"

----------------------------------------------------------------------------
\* C12: warm_cache never raises for the failure of chunks: whichever chunk
\* requests fail (after their retries, or rejected by the rate limiter of
\* get_users_batch), every chunk request is started, a failed chunk neither
\* cancels nor skips another, and warm_cache returns, normally, only once
\* every chunk task has settled.
C12_WarmCacheBestEffort ==
    warm.op = "warm_cache" =>
        /\ warm.result.kind # "raise"
        /\ warm.pc = "done" =>
              /\ warm.result = [kind |-> "return", value |-> None]
              /\ Len(batchArgs) = Len(batch)
              /\ \A k \in DOMAIN batch :
                    /\ batch[k].pc = "done"
                    /\ batch[k].result.kind \in {"return", "raise"}
                    /\ batch[k].admitted => batch[k].posted >= 1
                    /\ (batch[k].admitted /\ batch[k].result.kind = "raise")
                          => batch[k].posted = ClientMaxRetries + 1

C12_Witness ==
    /\ warm.op = "warm_cache"
    /\ warm.pc = "done"
    /\ Len(batch) = 3
    /\ batch[1].result.kind = "raise"
    /\ batch[1].result.exc.kind = "NetworkError"
    /\ batch[2].result.kind = "return"
    /\ batch[2].posted = 2
    /\ batch[3].result.kind = "raise"
    /\ batch[3].result.exc.kind = "RateLimitError"

----------------------------------------------------------------------------
(* Claims about HTTPClient.request *)

Uncached(r) == r.method # "GET" \/ ~r.use_cache

\* C13: a request that is not a GET, or is made with use_cache false,
\* neither reads nor changes the cache: when it has ended, well or not, the
\* keys, values, timestamps and recency order are what they were, and its
\* result came from the network.
C13_UncachedLeavesCache ==
    (req.pc = "done" /\ Uncached(req)) =>
        /\ req.ops = <<>>
        /\ _cache = req.pre.cache
        /\ _access_order = req.pre.order
        /\ req.source = "net"

C13_Witness ==
    /\ req.pc = "done"
    /\ req.method = "POST"
    /\ req.use_cache
    /\ req.result.kind = "return"
    /\ req.prev # None
    /\ req.prev.method = "GET"
    /\ req.prev.params = req.params
    /\ Len(_access_order) = 1
    /\ _cache = req.pre.cache

SameItems(p, q) ==
    /\ p.none = q.none
    /\ {p.items[i] : i \in DOMAIN p.items} = {q.items[i] : i \in DOMAIN q.items}

\* a cached GET that follows, within the time-to-live, a cached GET answered
\* by the network
FollowsStoredGet ==
    /\ req.pc = "done"
    /\ req.method = "GET"
    /\ req.use_cache
    /\ req.prev # None
    /\ req.prev.method = "GET"
    /\ req.prev.use_cache
    /\ req.prev.source = "net"
    /\ req.prev.result.kind = "return"
    /\ req.url = req.prev.url
    /\ req.start - req.prev.end <= _ttl * TicksPerSecond

\* C14: two GETs with the same method, URL and set of parameter name/value
\* pairs have the same cache key in whatever order the parameters were given:
\* the second is served from the entry the first stored.
C14_ParamOrderIrrelevant ==
    (FollowsStoredGet /\ SameItems(req.params, req.prev.params)) =>
        /\ req.source = "cache"
        /\ req.result = req.prev.result

\* the same, when the parameters were given in the same order
C14_HoldsForSameOrder ==
    (FollowsStoredGet /\ req.params = req.prev.params) =>
        /\ req.source = "cache"
        /\ req.result = req.prev.result

\* C19: every HTTPClient.request call, answered by the cache, by the network
\* or failing, appends exactly one RequestMetric to the performance monitor,
\* with its outcome and its cache-hit flag.
C19_EveryRequestMeasured ==
    /\ Len(appended) = reqCount - (IF req.pc = "net" THEN 1 ELSE 0)
    /\ req.pc = "done" =>
          /\ appended # <<>>
          /\ appended[Len(appended)].success = (req.result.kind = "return")
          /\ appended[Len(appended)].cached = (req.source = "cache")

----------------------------------------------------------------------------
(* Further claims about rate_limit *)

RejectedAt == {i \in 1..Len(rateLog) : ~rateLog[i].admitted}

\* the entries of a window less than 60 seconds old at time t
Younger(w, t) == SelectSeq(w, LAMBDA x : t - x < WindowTicks)

\* C15: a rejected call raises RateLimitError without invoking the wrapped
\* operation, without sleeping and without recording a timestamp: but for
\* the purge of the entries 60 seconds old or older, the window is as it was.
C15_RejectionLeavesWindow ==
    /\ \A i \in RejectedAt :
          /\ rateLog[i].raised = "RateLimitError"
          /\ ~rateLog[i].invoked
          /\ rateLog[i].after = Younger(rateLog[i].before, rateLog[i].t)
          /\ i < Len(rateLog) => rateLog[i + 1].before = rateLog[i].after
    /\ (rateLog # <<>> /\ ~rateLog[Len(rateLog)].admitted /\ advances = 0)
          => clock = rateLog[Len(rateLog)].t
    /\ rateLog # <<>> => call_times = rateLog[Len(rateLog)].after

C15_Witness ==
    /\ Len(rateLog) = CallsPerMinute + 2
    /\ ~rateLog[CallsPerMinute + 1].admitted
    /\ ~rateLog[CallsPerMinute + 2].admitted
    /\ rateLog[CallsPerMinute + 2].t > rateLog[CallsPerMinute + 1].t
    /\ Len(call_times) = CallsPerMinute
    /\ call_times = rateLog[CallsPerMinute + 1].before

\* C16: every rejection carries the hint 60 - (now - oldest remaining
\* timestamp), and the hint is above 0 and at most 60, whatever the window
\* and the clock reading, which need not be a whole number of seconds.
C16_HintExactAndPositive ==
    \A i \in RejectedAt :
        /\ rateLog[i].hint * TicksPerSecond =
              WindowTicks - (rateLog[i].t - Head(rateLog[i].after))
        /\ rateLog[i].hint > 0
        /\ rateLog[i].hint <= 60

\* what holds of the hint: it is the whole seconds of that time, from 0 to 60
C16_HintIsTruncated ==
    \A i \in RejectedAt :
        LET left == WindowTicks - (rateLog[i].t - Head(rateLog[i].after)) IN
        /\ rateLog[i].hint * TicksPerSecond <= left
        /\ left < (rateLog[i].hint + 1) * TicksPerSecond
        /\ rateLog[i].hint >= 0
        /\ rateLog[i].hint <= 60

C16_HintZero == \A i \in RejectedAt : rateLog[i].hint # 0

----------------------------------------------------------------------------
\* C17: the state of a rate limiter belongs to one client instance: calls
\* admitted through an instance never change whether a call of the same
\* operation through another instance is admitted or rejected.
C17_WindowPerInstance ==
    \A i \in 1..Len(instLog) : instLog[i].admitted = instLog[i].alone

\* what holds: a call is admitted as if every call of the operation, through
\* whichever instance, had been made through one
C17_WindowPerMethod ==
    /\ \A i \in 1..Len(instLog) : instLog[i].alone => instLog[i].admitted \/
          \E c \in Clients : c # instLog[i].client /\ own[c] # <<>>
    /\ (\A c \in Clients : c # "A" => own[c] = <<>>) =>
          \A i \in 1..Len(instLog) : instLog[i].admitted = instLog[i].alone

----------------------------------------------------------------------------
(* Claims about the sub-requests of a fan-out *)

\* C18: every sub-request of a fan-out, the count lookups of get_user and the
\* thumbnail lookups of get_user_avatar, goes through its own rate limiter,
\* its own retry loop and the cache: one that fails is attempted
\* max_retries + 1 times before its slot is defaulted.
C18_SubRequestsRetried ==
    \A s \in ThumbSlots :
        (thumbs[s].pc = "done" /\ thumbs[s].result.kind = "raise") =>
            thumbs[s].sent = ClientMaxRetries + 1

\* the part that holds, of get_user: a count lookup that fails on the network
\* has been through four passes of its own retry loop
C18_CountLookupsRetried ==
    \A s \in AuxSlots :
        (/\ aux[s].pc = "done"
         /\ aux[s].result.kind = "raise"
         /\ aux[s].result.exc.kind # "RateLimitError")
        => aux[s].attempt = ClientMaxRetries

\* what holds of get_user_avatar: a thumbnail lookup is sent at most once and
\* its failure defaults the URL at once
C18_ThumbnailsSentOnce ==
    /\ \A s \in ThumbSlots : thumbs[s].sent <= 1
    /\ (avatar.pc = "done" /\ avatar.result.kind = "return") =>
          \A s \in ThumbSlots :
              thumbs[s].result.kind = "raise" =>
                  <<avatar.result.value.headshot_url,
                    avatar.result.value.bust_url,
                    avatar.result.value.full_body_url>>[s] = ""

----------------------------------------------------------------------------
(* Claims about PerformanceMonitor *)

\* C20: after m appends and no clear, a monitor of capacity max_metrics holds
\* min(m, max_metrics) metrics, the most recently appended ones in the order
\* they came; the buffer is never longer than max_metrics after an append.
C20_BufferKeepsNewest ==
    LET m == Len(appended)
        n == Len(_metrics) IN
    /\ n = Min(m, _max_metrics)
    /\ n <= _max_metrics
    /\ _metrics = SubSeq(appended, m - n + 1, m)

C20_Witness ==
    /\ Len(appended) = MaxMetricsBound + 1
    /\ _max_metrics = MaxMetricsBound
    /\ Len(_metrics) = MaxMetricsBound
    /\ _metrics[1] = appended[2]
    /\ appended[1] # appended[2]
    /\ ~appended[1].success

\* C21: of a tracked run that has been left (and no clear_metrics since), the
\* metric is the newest one appended; its success flag is true exactly when
\* the body returned, for every kind of raise, cancellation included; what
\* the body raised leaves the with statement.
C21_SuccessIffCompleted ==
    (tracked.pc = "out" /\ tracked.body # "" /\ appended # <<>>) =>
        /\ Last(appended).success = (tracked.body = "return")
        /\ tracked.raised =
               (IF tracked.body = "return" THEN None ELSE Exc(tracked.body))

\* C21, as the code has it: the flag is false exactly when the body raised
\* an Exception; a BaseException such as CancelledError leaves it true.
C21_SuccessIffNoException ==
    (tracked.pc = "out" /\ tracked.body # "" /\ appended # <<>>) =>
        /\ Last(appended).success =
               (tracked.body = "return" \/ ~Caught(tracked.body))
        /\ Last(appended).endpoint \in TrackedEndpoints
        /\ tracked.raised =
               (IF tracked.body = "return" THEN None ELSE Exc(tracked.body))

C21_CancelledCountsAsSuccess ==
    /\ tracked.pc = "out"
    /\ tracked.body = "CancelledError"
    /\ tracked.raised = Exc("CancelledError")
    /\ appended # <<>>
    /\ Last(appended).success

\* the window the statistics are meant to cover: the last min(n, Len) metrics
LastN(ms, n) == SubSeq(ms, Len(ms) - Min(n, Len(ms)) + 1, Len(ms))

\* the statistics of a window w, as stated: its length, the two rates as
\* percentages of it, and the extremes exactly when w is not empty
StatsMatch(result, w) ==
    /\ result.total_requests = Len(w)
    /\ w # <<>> =>
          /\ result.success_rate =
                 RoundDiv(100 * 100 * Len(SelectSeq(w, Successful)), Len(w))
          /\ result.cache_hit_rate =
                 RoundDiv(100 * 100 * Len(SelectSeq(w, Cached)), Len(w))
    /\ ("fastest_request" \in DOMAIN result) = (w # <<>>)
    /\ ("slowest_request" \in DOMAIN result) = (w # <<>>)
    /\ w # <<>> =>
          /\ "fastest_request" \in DOMAIN result
          /\ "slowest_request" \in DOMAIN result
          /\ \A i \in DOMAIN w :
                /\ result.fastest_request <= w[i].duration
                /\ result.slowest_request >= w[i].duration

\* C22: for every last_n >= 0, get_stats(last_n) aggregates exactly the
\* min(last_n, buffer length) most recent metrics.
C22_StatsOverLastN ==
    statsCall.op = "get_stats" =>
        StatsMatch(statsCall.result, LastN(statsCall.seen, statsCall.last_n))

\* C22, as the code has it: the statement holds for last_n >= 1, and
\* get_stats(0) aggregates the whole buffer.
C22_HoldsForPositiveN ==
    statsCall.op = "get_stats" =>
        IF statsCall.last_n >= 1
        THEN StatsMatch(statsCall.result,
                        LastN(statsCall.seen, statsCall.last_n))
        ELSE StatsMatch(statsCall.result, statsCall.seen)

C22_ZeroCoversAll ==
    /\ statsCall.op = "get_stats"
    /\ statsCall.last_n = 0
    /\ Len(statsCall.seen) >= 2
    /\ statsCall.result.total_requests = Len(statsCall.seen)
    /\ "fastest_request" \in DOMAIN statsCall.result

\* the sum of total_requests over the blocks of an endpoint report
RECURSIVE TotalRequests(_, _)
TotalRequests(blocks, es) ==
    IF es = {} THEN 0
    ELSE LET e == CHOOSE x \in es : TRUE IN
         blocks[e].total_requests + TotalRequests(blocks, es \ {e})

\* C23: get_endpoint_stats returns one block per endpoint in the buffer, over
\* exactly that endpoint's metrics, with the statistics get_stats reports for
\* them, fastest and slowest included.
C23_EndpointBlocksMatchStats ==
    statsCall.op = "get_endpoint_stats" =>
        /\ DOMAIN statsCall.result = EndpointsOf(statsCall.seen)
        /\ TotalRequests(statsCall.result, DOMAIN statsCall.result)
               = Len(statsCall.seen)
        /\ \A e \in DOMAIN statsCall.result :
              StatsMatch(statsCall.result[e], OfEndpoint(statsCall.seen, e))

\* C23, as the code has it: each block is the basic statistics of its
\* endpoint's metrics and has no fastest or slowest duration.
C23_BlocksAreBasicStats ==
    statsCall.op = "get_endpoint_stats" =>
        /\ DOMAIN statsCall.result = EndpointsOf(statsCall.seen)
        /\ TotalRequests(statsCall.result, DOMAIN statsCall.result)
               = Len(statsCall.seen)
        /\ \A e \in DOMAIN statsCall.result :
              LET w == OfEndpoint(statsCall.seen, e) IN
              /\ w # <<>>
              /\ statsCall.result[e].total_requests = Len(w)
              /\ statsCall.result[e].success_rate =
                     RoundDiv(100 * 100 * Len(SelectSeq(w, Successful)),
                              Len(w))
              /\ DOMAIN statsCall.result[e] =
                     {"total_requests", "avg_duration", "success_rate",
                      "cache_hit_rate"}

C23_TwoBlocksNoExtremes ==
    /\ statsCall.op = "get_endpoint_stats"
    /\ Cardinality(DOMAIN statsCall.result) = 2
    /\ \A e \in DOMAIN statsCall.result :
          "fastest_request" \notin DOMAIN statsCall.result[e]

----------------------------------------------------------------------------
(* Claims about the cache and the rate limiter under composition *)

\* the keys the cache call just made was about: its own key, and the keys a
\* set evicted to make room
TouchedBy(call) ==
    (IF call.op \in {"get", "set"} THEN {call.key} ELSE {})
        \cup (IF call.op = "set" THEN call.evicted ELSE {})

\* C24: expiry is lazy. A step in which only time passes changes nothing in
\* the cache; a get, set or get_stats that is not about key k and does not
\* evict k for room leaves an entry of k that is older than the TTL stored,
\* unchanged, counted in the size and at its place among the keys that were
\* not touched.
C24_ExpiryIsLazy ==
    [][/\ clock' # clock =>
              (_cache' = _cache /\ _access_order' = _access_order)
       /\ \A k \in DOMAIN _cache :
              (/\ Expired(clock, _cache[k].timestamp, _ttl)
               /\ cLast'.op \in {"get", "set", "stats"}
               /\ k \notin TouchedBy(cLast'))
              => /\ k \in DOMAIN _cache'
                 /\ _cache'[k] = _cache[k]
                 /\ SeqWithoutSet(_access_order', TouchedBy(cLast'))
                        = SeqWithoutSet(_access_order, TouchedBy(cLast'))
                 /\ CacheStats(_cache', _max_size, _ttl).size
                        = Cardinality(DOMAIN _cache')
                 /\ cLast'.op = "stats" =>
                        cLast'.result.size = Cardinality(DOMAIN _cache)]_vars

\* an expired entry of k is in the cache after a hit on another key, stored
\* later, at a time when k had already expired
C24_Witness ==
    \E k \in DOMAIN _cache :
        /\ Expired(clock, _cache[k].timestamp, _ttl)
        /\ k \in SeqRange(_access_order)
        /\ cLast.op = "get"
        /\ cLast.key # k
        /\ cLast.t = clock
        /\ cLast.result # Absent

\* the same, seen by get_stats: the expired entry is counted
C24_WitnessCounted ==
    /\ cLast.op = "stats"
    /\ cLast.result.size = 2
    /\ \E k \in DOMAIN _cache : Expired(clock, _cache[k].timestamp, _ttl)

\* warm_cache has returned and every chunk request it made succeeded
WarmedAllOk ==
    /\ warm.op = "warm_cache"
    /\ warm.pc = "done"
    /\ batch # <<>>
    /\ \A k \in DOMAIN batch :
          /\ batch[k].result.kind = "return"
          /\ batch[k].posted >= 1

\* C25: after warm_cache on a cache that was empty, with every chunk request
\* successful, the cache holds entries obtained by those requests.
C25_WarmCachePopulatesCache ==
    WarmedAllOk => Cardinality(DOMAIN _cache) > 0

\* C25, as the code has it: the chunk requests are POSTs made with
\* use_cache=False, so warm_cache stores nothing.
C25_WarmCacheStoresNothing ==
    (warm.op = "warm_cache") => (_cache = EmptyCache /\ _access_order = <<>>)

C25_WarmedAndEmpty ==
    /\ WarmedAllOk
    /\ Len(batch) = 2
    /\ CacheStats(_cache, _max_size, _ttl).size = 0

\* the admissions of call k recorded by the rate limiter
EntriesOf(k) == {i \in 1..Len(rateLog) : rateLog[i].task = k}

Suspended(k) == running[k].pc \in {"net", "sleep"}

\* C26: with K calls of one rate-limited operation running concurrently, each
\* wrapper's purge, test and append is one step on the window the previous
\* wrapper left, and no interleaving admits more than the limit within any
\* 60-second window, whether or not the admitted calls are still suspended.
C26_AtomicAdmission ==
    /\ \A i \in AdmittedAt :
          Cardinality({j \in AdmittedAt :
                          /\ rateLog[j].t >= rateLog[i].t
                          /\ rateLog[j].t < rateLog[i].t + WindowTicks})
              <= ConcLimit
    /\ \A i \in 1..Len(rateLog) :
          /\ rateLog[i].before =
                 (IF i = 1 THEN <<>> ELSE rateLog[i - 1].after)
          /\ rateLog[i].after =
                 (IF rateLog[i].admitted
                  THEN Append(Purge(rateLog[i].before, rateLog[i].t),
                              rateLog[i].t)
                  ELSE Purge(rateLog[i].before, rateLog[i].t))
          /\ rateLog[i].admitted =
                 (Len(Purge(rateLog[i].before, rateLog[i].t)) < ConcLimit)
    /\ call_times = (IF rateLog = <<>> THEN <<>> ELSE Last(rateLog).after)
    /\ Len(call_times) <= ConcLimit

\* as many calls as the limit are admitted and all still suspended, one of
\* them in its backoff sleep, and a further call was rejected meanwhile
C26_Witness ==
    /\ Cardinality({k \in DOMAIN running :
                       running[k].admitted /\ Suspended(k)}) = ConcLimit
    /\ \E k \in DOMAIN running : running[k].pc = "sleep"
    /\ \E k \in DOMAIN running :
          /\ running[k].pc = "done"
          /\ ~running[k].admitted
          /\ running[k].result.exc.kind = "RateLimitError"

\* C27: the admission is evaluated once per call and before its first
\* attempt. A rejected call makes no request and no backoff wait; an admitted
\* call has one admission and one timestamp, however many requests it makes
\* and however it ends.
C27_AdmissionOncePerCall ==
    /\ \A j \in DOMAIN running :
            /\ Cardinality(EntriesOf(j)) =
                   (IF running[j].pc = "new" THEN 0 ELSE 1)
            /\ running[j].admitted =
                   (\E i \in EntriesOf(j) : rateLog[i].admitted)
            /\ ~running[j].admitted =>
                   /\ running[j].requests = 0
                   /\ running[j].slept = 0
                   /\ running[j].attempt = 0
            /\ running[j].admitted =>
                   /\ running[j].requests >= 1
                   /\ running[j].requests = running[j].attempt + 1
                   /\ \A i \in EntriesOf(j) :
                         Len(rateLog[i].after)
                             = Len(Purge(rateLog[i].before, rateLog[i].t)) + 1
    /\ Len(call_times) <=
           Cardinality({k \in DOMAIN running : running[k].admitted})

\* one call was admitted once, made every request its retries allow and
\* failed; another was rejected and made none
C27_Witness ==
    /\ \E k \in DOMAIN running :
          /\ running[k].pc = "done"
          /\ running[k].admitted
          /\ running[k].requests = MaxConcRetries + 1
          /\ running[k].slept = MaxConcRetries
          /\ running[k].result.kind = "raise"
          /\ Cardinality(EntriesOf(k)) = 1
    /\ \E k \in DOMAIN running :
          /\ running[k].pc = "done"
          /\ ~running[k].admitted
          /\ running[k].requests = 0

\* the cache key of the request in req, and whether the cache held a live
\* entry for it when the request was made
ReqKey == CacheKeyOf(req.method, req.url, req.params)

HeldLive ==
    /\ ReqKey \in DOMAIN req.pre.cache
    /\ ~Expired(req.start, req.pre.cache[ReqKey].timestamp, _ttl)

Cacheable(r) == r.method = "GET" /\ r.use_cache

C28_WitnessFailed ==
    /\ req.pc = "done"
    /\ Cacheable(req)
    /\ req.result.kind = "raise"
    /\ ReqKey \in DOMAIN req.pre.cache
    /\ _cache = EmptyCache

\* a direct get_users_batch call with more than 100 ids was admitted by the
\* rate limiter and has ended
OversizeEnded ==
    /\ DirectCall
    /\ Len(user_ids) > BatchCeiling
    /\ batch # <<>>
    /\ batch[1].pc = "done"
    /\ batch[1].admitted

\* C29: such a call is rejected at once: its size check is evaluated once,
\* no backoff wait precedes the error, and the call leaves no timestamp in
\* the rate window of get_users_batch.
C29_OversizeRejectedAtOnce ==
    OversizeEnded =>
        /\ batch[1].result.kind = "raise"
        /\ batch[1].result.exc.kind = "ValueError"
        /\ batch[1].result.exc.inv = 1
        /\ batch[1].attempt = 0
        /\ clock = 0
        /\ \E n \in {0, GetUsersBatchLimit - 2} :
              win["get_users_batch"] = WindowOf(n)

\* C29, as the code has it: the check is inside the retry wrapper, which is
\* inside the rate limiter. The ValueError is retried: the check is evaluated
\* max_retries + 1 times, the error reaches the caller after 1 + 2 + 4
\* seconds of backoff, and the call has taken a slot of the window.
C29_OversizeRetriedAndCounted ==
    OversizeEnded =>
        /\ batch[1].result.kind = "raise"
        /\ batch[1].result.exc.kind = "ValueError"
        /\ batch[1].result.exc.inv = ClientMaxRetries + 1
        /\ batch[1].attempt = ClientMaxRetries
        /\ batch[1].posted = 0
        /\ clock = BackoffTotal(ClientMaxRetries)
        /\ \E n \in {0, GetUsersBatchLimit - 2} :
              win["get_users_batch"] = Append(WindowOf(n), 0)

C29_OversizeTookSevenSeconds ==
    /\ OversizeEnded
    /\ Len(user_ids) = BatchCeiling + 1
    /\ clock = 7 * TicksPerSecond
    /\ Len(win["get_users_batch"]) = 1

\* the primary profile requests that one get_user_by_username call has sent
\* to the network so far: those of its finished get_user calls, those of the
\* get_user call in progress, and the request in flight
PrimaryIssued ==
    byName.gets
      + (IF byName.pc = "inner"
         THEN NetworkGets(primaryLog) + (IF main.pc = "net" THEN 1 ELSE 0)
         ELSE 0)

\* C30: one get_user_by_username call issues its POST at most
\* max_retries + 1 times and the primary profile request at most
\* max_retries + 1 = 4 times.
C30_EachRequestAtMostFourTimes ==
    /\ byName.posts <= ClientMaxRetries + 1
    /\ PrimaryIssued <= ClientMaxRetries + 1

\* C30, as the code has it: get_user retries inside the retry loop of
\* get_user_by_username, so the POST is sent at most max_retries + 1 times
\* and the primary request at most (max_retries + 1) squared times, at
\* most max_retries + 1 of them in each get_user call.
C30_RetriesAreNested ==
    /\ byName.posts <= ClientMaxRetries + 1
    /\ byName.inner <= byName.posts
    /\ PrimaryIssued <= (ClientMaxRetries + 1) * (ClientMaxRetries + 1)
    /\ byName.pc = "inner" =>
          NetworkGets(primaryLog) + (IF main.pc = "net" THEN 1 ELSE 0)
              <= ClientMaxRetries + 1

C30_SixteenPrimaryRequests ==
    /\ byName.pc = "done"
    /\ byName.posts = ClientMaxRetries + 1
    /\ byName.gets = (ClientMaxRetries + 1) * (ClientMaxRetries + 1)

----------------------------------------------------------------------------
(* Claims about the internal consistency of APICache and the wrappers *)

\* C31: on a cache with max_size >= 1, every get, set and clear completes
\* without raising, and afterwards _access_order holds exactly the keys of
\* _cache, each exactly once.
C31_OrderMatchesKeys ==
    /\ cLast.op \in {"get", "set"} => cLast.raised = ""
    /\ SeqRange(_access_order) = DOMAIN _cache
    /\ Len(_access_order) = Cardinality(DOMAIN _cache)

\* The same statement on caches of two entries or more
C31_HoldsFromTwoEntries == _max_size >= 2 => C31_OrderMatchesKeys

\* a set of the stored key on a cache of one entry has raised IndexError and
\* left the key stored without a recency slot
C31_StoredKeyWithoutSlot ==
    /\ _max_size = 1
    /\ cLast.op = "set"
    /\ cLast.raised = "IndexError"
    /\ cLast.key \in DOMAIN _cache
    /\ _access_order = <<>>

\* the last call was a set of a key that was stored
ResetOfStoredKey == cLast.op = "set" /\ cLast.key \in cLast.preKeys

\* C32: set(k, v) on a stored key replaces k's value and timestamp and makes
\* k the most recently used key; it evicts no key, so the stored keys are the
\* same before and after, also when the cache is full.
C32_ResetKeepsKeys ==
    ResetOfStoredKey =>
        /\ cLast.raised = ""
        /\ cLast.evicted = {}
        /\ DOMAIN _cache = cLast.preKeys
        /\ _cache[cLast.key] = [value |-> written[cLast.key].value,
                                timestamp |-> written[cLast.key].storedAt]
        /\ Last(_access_order) = cLast.key

\* C32, as the code has it: the statement holds while the cache is below
\* max_size; on a full cache of two entries or more the eviction loop runs
\* with k still counted and drops the least recently used of the other keys.
C32_HoldsBelowCapacity ==
    /\ (ResetOfStoredKey /\ Cardinality(cLast.preKeys) < _max_size)
          => C32_ResetKeepsKeys
    /\ (ResetOfStoredKey /\ Cardinality(cLast.preKeys) = _max_size
           /\ _max_size >= 2)
          => /\ cLast.raised = ""
             /\ cLast.evicted =
                   {Head(SeqWithout(cLast.preOrder, cLast.key))}
             /\ DOMAIN _cache = cLast.preKeys \ cLast.evicted
             /\ Last(_access_order) = cLast.key

C32_ResetEvictedAnother ==
    /\ ResetOfStoredKey
    /\ cLast.raised = ""
    /\ \E j \in cLast.preKeys : j # cLast.key /\ cLast.evicted = {j}
    /\ DOMAIN _cache = cLast.preKeys \ cLast.evicted

\* call j is made at the time the hint of the rejected call i names, and no
\* call between the two was admitted
RetriedAtHint(i, j) ==
    /\ i \in RejectedAt
    /\ j \in (i + 1)..Len(rateLog)
    /\ rateLog[j].t = rateLog[i].t + rateLog[i].hint * TicksPerSecond
    /\ \A k \in (i + 1)..(j - 1) : ~rateLog[k].admitted

\* C33: if a call is rejected at time t with hint r and no other call is
\* admitted in between, a call made at time t + r is admitted, whatever the
\* clock readings.
C33_HintIsSufficient ==
    \A i, j \in 1..Len(rateLog) : RetriedAtHint(i, j) => rateLog[j].admitted

\* C33, as the code has it: the hint is enough when the rejection comes a
\* whole number of seconds after the oldest timestamp; otherwise int() has
\* cut it short, and one second more than the hint is always enough.
C33_SufficientOnWholeSeconds ==
    \A i \in RejectedAt : \A j \in (i + 1)..Len(rateLog) :
        (\A k \in (i + 1)..(j - 1) : ~rateLog[k].admitted) =>
            /\ (/\ RetriedAtHint(i, j)
                /\ (rateLog[i].t - Head(rateLog[i].after))
                       % TicksPerSecond = 0)
                  => rateLog[j].admitted
            /\ rateLog[j].t >= rateLog[i].t
                                 + (rateLog[i].hint + 1) * TicksPerSecond
                  => rateLog[j].admitted

C33_RetryAtHintRejected ==
    \E i, j \in 1..Len(rateLog) :
        /\ RetriedAtHint(i, j)
        /\ ~rateLog[j].admitted
        /\ (rateLog[i].t - Head(rateLog[i].after)) % TicksPerSecond # 0

C33_RetryAtHintAdmitted ==
    \E i, j \in 1..Len(rateLog) :
        /\ RetriedAtHint(i, j)
        /\ rateLog[i].hint > 0
        /\ rateLog[j].admitted

\* the call has ended with what an invocation of the operation produced
EndedWithOutcomeOfOperation ==
    /\ invocations # <<>>
    /\ \/ /\ rResult.kind = "return"
          /\ Last(invocations).ok
          /\ rResult.value = Last(invocations).value
       \/ /\ rResult.kind = "raise"
          /\ \E i \in 1..Len(invocations) :
                ~invocations[i].ok /\ invocations[i].exc = rResult.exc

\* C34: for every max_retries, values below 0 included, a call of a
\* retry-wrapped operation invokes the operation at least once and returns
\* its result or raises an exception the operation raised; the RuntimeError
\* after the loop is never raised.
C34_FallbackUnreachable ==
    rPc = "done" =>
        /\ EndedWithOutcomeOfOperation
        /\ rResult.kind = "raise" => rResult.exc.kind # "RuntimeError"

\* C34, as the code has it: the statement holds from max_retries = 0 on;
\* below 0 the range is empty, the operation is never invoked and the call
\* raises the RuntimeError.
C34_HoldsFromZeroRetries ==
    /\ max_retries >= 0 => C34_FallbackUnreachable
    /\ (max_retries < 0 /\ rPc = "done") =>
          /\ invocations = <<>>
          /\ rResult = [kind |-> "raise",
                        exc |-> [kind |-> "RuntimeError", inv |-> 0]]

C34_FallbackRaised ==
    /\ max_retries < 0
    /\ rPc = "done"
    /\ invocations = <<>>
    /\ rResult.kind = "raise"
    /\ rResult.exc.kind = "RuntimeError"

C34_OperationOutcomeSurfaced ==
    /\ max_retries = MaxRetriesBound
    /\ rPc = "done"
    /\ Len(invocations) = max_retries + 1
    /\ EndedWithOutcomeOfOperation
    /\ rResult.kind = "raise"

----------------------------------------------------------------------------
====
